---- MODULE Spec2Model ----
(***************************************************************************)
(* Job Store (core/db_sqlite.py, core/db_pg.py) and the worker loops of    *)
(* core/pipeline.py of parser_maps_pro.                                    *)
(*                                                                         *)
(* Tables are sequences of rows in ascending id order.  A Python dict is a *)
(* TLA+ function whose DOMAIN is the set of keys present; Python None and  *)
(* "no row" are the empty sequence, a returned row r is <<r>>.  A task     *)
(* mode is the sequence of its "_"-separated words (LINKS_MAPSCAN_SEARCH   *)
(* is <<"LINKS","MAPSCAN","SEARCH">>, the empty string is <<>>).           *)
(***************************************************************************)
EXTENDS Integers, Sequences, FiniteSets, TLC

VARIABLES backend, tasks, nextTaskId, links, nextLinkId, orgs, sources, now,
          lastOp, workers, pipe, closer, harvest, loop, opener, app

dbVars == <<tasks, nextTaskId, links, nextLinkId, orgs, sources>>
jobVars == <<backend, tasks, nextTaskId, links, nextLinkId, orgs, sources, now,
             lastOp, workers, closer, harvest, loop, opener, app>>
vars == <<backend, tasks, nextTaskId, links, nextLinkId, orgs, sources, now,
          lastOp, workers, pipe, closer, harvest, loop, opener, app>>

\* ------------------------------------------------------------ bounds
\* Pipeline objects created by /api/start stay <= MaxPipelines
MaxPipelines == 2
\* ids handed out by the tasks sequence stay <= MaxTaskId
MaxTaskId == 2
\* TASK_MAX_ATTEMPTS as configured for the run
MaxAttempts == 2
\* rows per add_tasks call
MaxBatch == 2
\* ids handed out by the links sequence stay <= MaxLinkId
MaxLinkId == 2
\* urls per insert_links call
MaxUrls == 2
\* rows of org_sources
MaxSources == 1
\* datetime('now') / NOW() stays <= MaxClock
MaxClock == 1

\* ------------------------------------------------------------ helpers
Backends == {"sqlite", "pg"}

None == <<>>

Some(r) == <<r>>

\* dict.get(k, default)
Get(d, k, default) == IF k \in DOMAIN d THEN d[k] ELSE default

Range(s) == {s[i] : i \in 1..Len(s)}

\* all sequences over S of length <= n
SeqsUpTo(S, n) == UNION {[1..m -> S] : m \in 0..n}

\* ------------------------------------------------------------ task rows
LINKS_SEARCH == <<"LINKS", "SEARCH">>
LINKS_MAPSCAN_SEARCH == <<"LINKS", "MAPSCAN", "SEARCH">>
LINKS_CATEGORY == <<"LINKS", "CATEGORY">>
LINKS_MAPSCAN_CATEGORY == <<"LINKS", "MAPSCAN", "CATEGORY">>
EmptyMode == <<>>

Statuses == {"PENDING", "RUNNING", "RETRY", "DONE", "ERROR", "WAITCAPTCHA"}

\* last_error column: NULL, the DONE note, or a worker-tagged message
NullError == [kind |-> "null", worker |-> "", n |-> 0]

\* f"inserted_links={inserted}"
InsertedNote(inserted) == [kind |-> "inserted_links", worker |-> "", n |-> inserted]

\* tagged message of set_task_waitcaptcha / set_task_error; n is its stored length
TaggedError(worker, n) == [kind |-> "error", worker |-> worker, n |-> n]

\* the row add_tasks inserts for dict t: every column by t.get(column, default),
\* status 'PENDING', attempts and last_error by the column defaults
NewTaskRow(id, t) ==
  [id |-> id,
   manager |-> Get(t, "manager", ""),
   region |-> Get(t, "region", ""),
   city |-> Get(t, "city", ""),
   mode |-> Get(t, "mode", EmptyMode),
   query_key |-> Get(t, "query_key", ""),
   query_ru |-> Get(t, "query_ru", ""),
   category_path |-> Get(t, "category_path", ""),
   domain_pref |-> Get(t, "domain_pref", "auto"),
   status |-> "PENDING",
   attempts |-> 0,
   last_error |-> NullError]

\* task dicts as build_tasks makes them, and one with keys missing
TaskInputs ==
  {[manager |-> "m1", region |-> "r1", city |-> "c1", mode |-> LINKS_MAPSCAN_SEARCH,
    query_key |-> "A", query_ru |-> "q1", category_path |-> "", domain_pref |-> "auto"],
   [manager |-> "m2", region |-> "r2", city |-> "c2", mode |-> LINKS_CATEGORY,
    query_key |-> "B", query_ru |-> "", category_path |-> "p1", domain_pref |-> "ru"],
   [city |-> "c3"]}

TaskIds == 1..MaxTaskId

TaskById(ts, id) == SelectSeq(ts, LAMBDA r : r.id = id)

HasTask(ts, id) == \E i \in 1..Len(ts) : ts[i].id = id


\* ------------------------------------------------------------ Job Store: tasks
\* SQLiteDB: mode LIKE '%LINKS%' OR mode LIKE '%MAPSCAN%'
IsLinkModeSqlite(mode) == \E i \in 1..Len(mode) : mode[i] \in {"LINKS", "MAPSCAN"}

\* PostgresDB: mode LIKE 'LINKS%'
IsLinkModePg(mode) == Len(mode) > 0 /\ mode[1] = "LINKS"

\* faulty variant of ClaimWhere: the mode test left out
ClaimWhereAnyMode(b, r, max_attempts) ==
  /\ r.status \in {"PENDING", "RETRY"}
  /\ r.attempts < max_attempts

\* faulty variant of ClaimWhere: the attempts test left out
ClaimWhereNoLimit(b, r, max_attempts) ==
  /\ IF b = "sqlite" THEN IsLinkModeSqlite(r.mode) ELSE IsLinkModePg(r.mode)
  /\ r.status \in {"PENDING", "RETRY"}

\* the WHERE clause of the claim's SELECT
ClaimWhere(b, r, max_attempts) ==
  /\ IF b = "sqlite" THEN IsLinkModeSqlite(r.mode) ELSE IsLinkModePg(r.mode)
  /\ r.status \in {"PENDING", "RETRY"}
  /\ r.attempts < max_attempts

RECURSIVE FirstRow(_, _)
\* ORDER BY id ASC LIMIT 1 over the rows whose id is in ids
FirstRow(ts, ids) ==
  IF ts = <<>> THEN None
  ELSE IF Head(ts).id \in ids THEN Some(Head(ts)) ELSE FirstRow(Tail(ts), ids)

\* the claim's SELECT; locked: ids of rows another transaction holds FOR UPDATE
\* (PostgresDB skips them, SQLiteDB takes no row lock)
SelectNextTask(b, ts, max_attempts, locked) ==
  FirstRow(ts, {r.id : r \in {x \in Range(ts) :
                  ClaimWhere(b, x, max_attempts) /\ (b = "pg" => x.id \notin locked)}})

\* UPDATE tasks SET status='RUNNING', attempts=attempts+1 WHERE id=?
ClaimUpdate(r) == [r EXCEPT !.status = "RUNNING", !.attempts = @ + 1]

\* the claim's UPDATE ... WHERE id=? on the table
ApplyClaim(ts, id) == [i \in 1..Len(ts) |-> IF ts[i].id = id THEN ClaimUpdate(ts[i]) ELSE ts[i]]

\* what the claim returns: SQLiteDB reads the row again after the commit,
\* PostgresDB returns dict(row) of the row its SELECT fetched
PickReturn(b, row, after) ==
  IF b = "sqlite" THEN FirstRow(after, {row.id}) ELSE Some(row)

\* program constant: messages are cut to 2000 characters
MsgLimit == 2000

Min(a, b) == IF a < b THEN a ELSE b

\* len(worker) of the worker names in use: "links" and the empty default
NameLen(worker) == IF worker = "" THEN 0 ELSE 5

\* length of the worker tag: f"{worker}: " (SQLiteDB), f"[{worker}] " (PostgresDB)
TagLen(b, worker) ==
  IF worker = "" THEN 0
  ELSE IF b = "sqlite" THEN NameLen(worker) + 2 ELSE NameLen(worker) + 3

\* a message cut to the limit before the tag is put in front of it
StoredMessageCutFirst(b, worker, errLen) ==
  TaggedError(worker, TagLen(b, worker) + Min(MsgLimit, errLen))

\* the stored message of set_task_waitcaptcha / set_task_error: (tag + err)[:2000]
StoredMessage(b, worker, errLen) ==
  TaggedError(worker, Min(MsgLimit, TagLen(b, worker) + errLen))

SetTaskLinksDone(ts, id, inserted) ==
  [i \in 1..Len(ts) |->
     IF ts[i].id = id THEN [ts[i] EXCEPT !.status = "DONE", !.last_error = InsertedNote(inserted)]
     ELSE ts[i]]

SetTaskWaitCaptcha(b, ts, id, errLen, worker) ==
  [i \in 1..Len(ts) |->
     IF ts[i].id = id THEN [ts[i] EXCEPT !.status = "WAITCAPTCHA", !.last_error = StoredMessage(b, worker, errLen)]
     ELSE ts[i]]

\* faulty variant of SetTaskError: a failure counted as an attempt
SetTaskErrorCounting(b, ts, id, errLen, worker) ==
  [i \in 1..Len(ts) |->
     IF ts[i].id = id THEN [ts[i] EXCEPT !.status = "ERROR", !.attempts = @ + 1, !.last_error = StoredMessage(b, worker, errLen)]
     ELSE ts[i]]

SetTaskError(b, ts, id, errLen, worker) ==
  [i \in 1..Len(ts) |->
     IF ts[i].id = id THEN [ts[i] EXCEPT !.status = "ERROR", !.last_error = StoredMessage(b, worker, errLen)]
     ELSE ts[i]]

\* SQLiteDB.retry_task leaves attempts alone; PostgresDB.retry_task sets attempts=0
RetryTask(b, ts, id) ==
  IF b = "sqlite"
  THEN [i \in 1..Len(ts) |->
     IF ts[i].id = id THEN [ts[i] EXCEPT !.status = "RETRY", !.last_error = NullError]
     ELSE ts[i]]
  ELSE [i \in 1..Len(ts) |->
     IF ts[i].id = id THEN [ts[i] EXCEPT !.status = "RETRY", !.attempts = 0, !.last_error = NullError]
     ELSE ts[i]]

\* SQLiteDB: ... WHERE status != 'RUNNING'; PostgresDB: every row
RequeueAllTasks(b, ts) ==
  [i \in 1..Len(ts) |->
     IF b = "sqlite" /\ ts[i].status = "RUNNING" THEN ts[i]
     ELSE [ts[i] EXCEPT !.status = "RETRY", !.attempts = 0, !.last_error = NullError]]

\* rows appended by add_tasks, ids from the sequence
RECURSIVE NewTaskRows(_, _)
NewTaskRows(id, rows) ==
  IF rows = <<>> THEN <<>>
  ELSE <<NewTaskRow(id, Head(rows))>> \o NewTaskRows(id + 1, Tail(rows))

\* ------------------------------------------------------------ Job Store: links
\* A URL is the sequence of its path segments after the host, each written
\* with a leading "/", and whether a "/" ends it.
DigitSegs == {"1", "2"}

IsDigits(seg) == seg \in DigitSegs

\* positions i where /org/[^/]+/(\d+)/ matches: "org", a non-empty segment,
\* a segment of digits, and a "/" after it
SlugMatches(u) ==
  {i \in 1..Len(u.segs) :
     /\ i + 2 <= Len(u.segs)
     /\ u.segs[i] = "org"
     /\ u.segs[i + 1] # ""
     /\ IsDigits(u.segs[i + 2])
     /\ (i + 2 < Len(u.segs) \/ u.trail)}

\* positions i where /org/(\d+)/ matches
PlainMatches(u) ==
  {i \in 1..Len(u.segs) :
     /\ i + 1 <= Len(u.segs)
     /\ u.segs[i] = "org"
     /\ IsDigits(u.segs[i + 1])
     /\ (i + 1 < Len(u.segs) \/ u.trail)}

MinOf(S) == CHOOSE x \in S : \A y \in S : x <= y

\* faulty variant of OrgIdFromUrl: /org/(\d+)/ tried before /org/[^/]+/(\d+)/
OrgIdFromUrlPlainFirst(u) ==
  IF Len(u.segs) = 0 THEN ""
  ELSE IF PlainMatches(u) # {} THEN u.segs[MinOf(PlainMatches(u)) + 1]
  ELSE IF SlugMatches(u) # {} THEN u.segs[MinOf(SlugMatches(u)) + 2]
  ELSE IF IsDigits(u.segs[Len(u.segs)]) THEN u.segs[Len(u.segs)]
  ELSE ""

\* org_id_from_url: the three patterns in order, re.search takes the leftmost match
OrgIdFromUrl(u) ==
  IF Len(u.segs) = 0 THEN ""
  ELSE IF SlugMatches(u) # {} THEN u.segs[MinOf(SlugMatches(u)) + 2]
  ELSE IF PlainMatches(u) # {} THEN u.segs[MinOf(PlainMatches(u)) + 1]
  ELSE IF IsDigits(u.segs[Len(u.segs)]) THEN u.segs[Len(u.segs)]
  ELSE ""

HasOrgId(ls, oid) == \E i \in 1..Len(ls) : ls[i].org_id = oid

\* the row one INSERT of insert_links adds
NewLinkRow(id, task_row, oid, u, source_mode) ==
  [id |-> id, task_id |-> task_row.id, org_id |-> oid, url |-> u,
   source_mode |-> source_mode,
   city |-> Get(task_row, "city", ""),
   region |-> Get(task_row, "region", ""),
   manager |-> Get(task_row, "manager", ""),
   query_ru |-> Get(task_row, "query_ru", ""),
   category_path |-> Get(task_row, "category_path", "")]

\* the id sequence after an INSERT that hit the conflict on org_id: SQLite
\* takes no rowid for an ignored row, PostgreSQL has already drawn nextval
\* for the BIGSERIAL default
IdAfterConflict(b, nextId) == IF b = "pg" THEN nextId + 1 ELSE nextId

\* an insert_links whose loop does not skip a url with no org id
InsertOneKeepingIdless(b, st, task_row, u, source_mode) ==
  LET oid == OrgIdFromUrl(u)
  IN IF HasOrgId(st.links, oid)
     THEN [st EXCEPT !.nextId = IdAfterConflict(b, st.nextId)]
     ELSE [links |-> Append(st.links, NewLinkRow(st.nextId, task_row, oid, u, source_mode)),
           nextId |-> st.nextId + 1,
           inserted |-> st.inserted + 1]

\* an insert_links on a links table without the UNIQUE(org_id) constraint
InsertOneNoConflict(b, st, task_row, u, source_mode) ==
  LET oid == OrgIdFromUrl(u)
  IN IF oid = "" THEN st
     ELSE [links |-> Append(st.links, NewLinkRow(st.nextId, task_row, oid, u, source_mode)),
           nextId |-> st.nextId + 1,
           inserted |-> st.inserted + 1]

\* one pass of the loop of insert_links, st = [links, nextId, inserted]:
\* skip an empty org id, INSERT OR IGNORE / ON CONFLICT(org_id) DO NOTHING,
\* count the statement when its rowcount is 1
InsertOne(b, st, task_row, u, source_mode) ==
  LET oid == OrgIdFromUrl(u)
  IN IF oid = "" THEN st
     ELSE IF HasOrgId(st.links, oid)
     THEN [st EXCEPT !.nextId = IdAfterConflict(b, st.nextId)]
     ELSE [links |-> Append(st.links, NewLinkRow(st.nextId, task_row, oid, u, source_mode)),
           nextId |-> st.nextId + 1,
           inserted |-> st.inserted + 1]

RECURSIVE InsertLinks(_, _, _, _, _, _)
\* insert_links: the loop over urls from position k, in order
InsertLinks(b, st, task_row, urls, source_mode, k) ==
  IF k > Len(urls) THEN st
  ELSE InsertLinks(b, InsertOne(b, st, task_row, urls[k], source_mode),
                   task_row, urls, source_mode, k + 1)

\* a fetch_next_link without the join against orgs
FetchNextLinkAny(ls, os) ==
  IF ls = <<>> THEN None ELSE Some(Head(ls))

\* a fetch_next_link joined against org_sources instead of orgs
FetchNextLinkUnsourced(ls, os) ==
  LET open == SelectSeq(ls, LAMBDA l : ~\E i \in 1..Len(sources) : sources[i].org_id = l.org_id)
  IN IF open = <<>> THEN None ELSE Some(Head(open))

\* a fetch_next_link ordered by id descending
FetchNextLinkNewest(ls, os) ==
  LET open == SelectSeq(ls, LAMBDA l : ~\E o \in os : o.org_id = l.org_id)
  IN IF open = <<>> THEN None ELSE Some(open[Len(open)])

\* fetch_next_link: the first link, by id, with no orgs row for its org_id
FetchNextLink(ls, os) ==
  LET open == SelectSeq(ls, LAMBDA l : ~\E o \in os : o.org_id = l.org_id)
  IN IF open = <<>> THEN None ELSE Some(Head(open))

\* ------------------------------------------------------------ Job Store: orgs
OrgFields == {"name", "address", "website", "ypage", "phone", "social"}

\* the row upsert_org writes for dict org at time t
OrgRow(org, t) ==
  [org_id |-> Get(org, "org_id", ""),
   name |-> Get(org, "name", ""),
   address |-> Get(org, "address", ""),
   website |-> Get(org, "website", ""),
   ypage |-> Get(org, "ypage", ""),
   phone |-> Get(org, "phone", ""),
   social |-> Get(org, "social", ""),
   updated_at |-> t]

\* an upsert_org that keeps a stored field when the dict brings none for it
UpsertOrgKeepingFilled(os, org, t) ==
  LET new == OrgRow(org, t)
      same == {o \in os : o.org_id = new.org_id}
  IN (os \ same) \cup
       (IF same = {} THEN {new}
        ELSE {[k \in DOMAIN new |->
                 IF k \in OrgFields /\ new[k] = "" THEN o[k] ELSE new[k]] : o \in same})

\* an upsert_org into an orgs table without its primary key
UpsertOrgNoConflict(os, org, t) == os \cup {OrgRow(org, t)}

\* INSERT ... ON CONFLICT(org_id) DO UPDATE SET every field, updated_at
UpsertOrg(os, org, t) ==
  {o \in os : o.org_id # Get(org, "org_id", "")} \cup {OrgRow(org, t)}

\* the row add_source appends (0 stands for a missing task_id)
SourceRow(org_id, link_row, mode) ==
  [org_id |-> org_id,
   task_id |-> Get(link_row, "task_id", 0),
   manager |-> Get(link_row, "manager", ""),
   region |-> Get(link_row, "region", ""),
   city |-> Get(link_row, "city", ""),
   mode |-> mode,
   query_ru |-> Get(link_row, "query_ru", ""),
   category_path |-> Get(link_row, "category_path", "")]

\* ------------------------------------------------------------ state
Workers == {"w1", "w2"}

\* a loop that is not running; a running loop is at pc "idle" (about to claim),
\* "selected" (inside the claim, its SELECT done), "working" (a task claimed,
\* links_fn running) or "inserted" (links_fn returned the count)
Stopped == [pc |-> "stopped", sel |-> None, task |-> None, inserted |-> 0]

\* the call a client of the Job Store made last, and what it returned
Call(op, args, ret) == [op |-> op, args |-> args, ret |-> ret]

\* the two loops of a Pipeline, the threads that run its join-and-close
\* sequence (the caller of stop() and the background threads of stop_async)
\* and the request handlers that call stop_async
Loops == {"links", "info"}
Agents == {"stop", "bg1", "bg2"}
Callers == {"c1", "c2"}

\* a thread that is not in the join-and-close sequence; seen is the pair of
\* drivers _close_drivers read, hung tells that a quit outlasted its wait
AgentOff == [pc |-> "off", seen |-> [l \in Loops |-> "none"], hung |-> FALSE]

\* Pipeline.__init__: the event unset, no threads, no drivers, not stopping
PipeInit ==
  [stop |-> FALSE, stopping |-> FALSE,
   threads |-> [l \in Loops |-> "none"],
   drivers |-> [l \in Loops |-> "none"],
   agents |-> [a \in Agents |-> AgentOff],
   callers |-> [c \in Callers |-> [pc |-> "off", last |-> "none"]]]

\* no call of _quit_driver_safely under way: the driver it was given, its
\* timeout and the time it has waited in join (in seconds), the state of the
\* thread running driver.quit(), what the fallback did and how the call ended
CloserOff ==
  [pc |-> "off", driver |-> "none", timeout |-> 0, waited |-> 0,
   quit |-> "none", fallback |-> "none", out |-> "none"]

\* no call of collect_links_from_list under way: its max_idle, the passes of
\* the for loop begun, its locals links, idle and last_cnt, the set held
\* after each pass so far, and how the call ended (the list returned, or the
\* exception raised); captcha tells that the page showed a captcha on the
\* last pass
HarvestOff ==
  [pc |-> "off", max_idle |-> 0, pass |-> 0, links |-> {}, idle |-> 0,
   last_cnt |-> 0, seen |-> <<>>, out |-> {}, raised |-> "", captcha |-> FALSE]

\* a loop of the Pipeline whose thread is not running: where it is in its
\* iteration, the task or link row it took, how the agent call of the
\* iteration ended ("ok" or the class of the exception) and what the agent
\* returned
LoopIdle ==
  [pc |-> "off", item |-> None, outcome |-> "none", result |-> None]

LoopOff == [l \in Loops |-> LoopIdle]

\* no call of make_driver under way: the profile directory it was given,
\* the directories that hold stale lock files, the launches made so far
\* (each with the user-data-dir it used and whether lock files lay in it),
\* the exception of the first launch, and how the call ended
NoFailure == [cls |-> "none", marked |-> FALSE]

OpenerOff ==
  [pc |-> "off", profile |-> "none", locked |-> {}, launches |-> <<>>,
   failure |-> NoFailure, out |-> "none"]

\* the Pipeline objects the application can create
Pipelines == 1..MaxPipelines

\* a Pipeline object not yet created: its event, its _stopping flag, its
\* two threads
PipelineNew == [stop |-> FALSE, stopping |-> FALSE, threads |-> [l \in Loops |-> "none"]]

\* the application at import: _state["pipeline"] is None and no Pipeline
\* object exists
AppInit == [pipeline |-> None, made |-> 0, pipes |-> [p \in Pipelines |-> PipelineNew]]

Init ==
  /\ backend \in Backends
  /\ tasks = <<>>
  /\ nextTaskId = 1
  /\ links = <<>>
  /\ nextLinkId = 1
  /\ orgs = {}
  /\ sources = <<>>
  /\ now = 0
  /\ lastOp = Call("init", <<>>, None)
  /\ workers = [w \in Workers |-> Stopped]
  /\ pipe = PipeInit
  /\ closer = CloserOff
  /\ harvest = HarvestOff
  /\ loop = LoopOff
  /\ opener = OpenerOff
  /\ app = AppInit

\* ------------------------------------------------------------ Job Store calls, one at a time
AddTasksOp(Inputs, maxId) ==
  \E rows \in SeqsUpTo(Inputs, MaxBatch) :
    /\ nextTaskId + Len(rows) - 1 <= maxId
    /\ tasks' = tasks \o NewTaskRows(nextTaskId, rows)
    /\ nextTaskId' = nextTaskId + Len(rows)
    /\ lastOp' = Call("add_tasks", rows, Len(rows))
    /\ UNCHANGED <<pipe, closer, harvest, loop, opener, app, backend, links, nextLinkId, orgs, sources, now, workers>>

\* pick_next_task_for_links run without interleaving
PickOp ==
  LET sel == SelectNextTask(backend, tasks, MaxAttempts, {})
  IN /\ IF sel = None
        THEN /\ tasks' = tasks
             /\ lastOp' = Call("pick_next_task_for_links", MaxAttempts, None)
        ELSE /\ tasks' = ApplyClaim(tasks, sel[1].id)
             /\ lastOp' = Call("pick_next_task_for_links", MaxAttempts,
                               PickReturn(backend, sel[1], tasks'))
     /\ UNCHANGED <<pipe, closer, harvest, loop, opener, app, backend, nextTaskId, links, nextLinkId, orgs, sources, now, workers>>

SetDoneOp(Counts) ==
  \E id \in TaskIds, inserted \in Counts :
    /\ tasks' = SetTaskLinksDone(tasks, id, inserted)
    /\ lastOp' = Call("set_task_links_done", [id |-> id, inserted |-> inserted], None)
    /\ UNCHANGED <<pipe, closer, harvest, loop, opener, app, backend, nextTaskId, links, nextLinkId, orgs, sources, now, workers>>

SetWaitCaptchaOp(ErrLens, Names) ==
  \E id \in TaskIds, errLen \in ErrLens, worker \in Names :
    /\ tasks' = SetTaskWaitCaptcha(backend, tasks, id, errLen, worker)
    /\ lastOp' = Call("set_task_waitcaptcha", [id |-> id, errLen |-> errLen, worker |-> worker], None)
    /\ UNCHANGED <<pipe, closer, harvest, loop, opener, app, backend, nextTaskId, links, nextLinkId, orgs, sources, now, workers>>

SetErrorOp(ErrLens, Names) ==
  \E id \in TaskIds, errLen \in ErrLens, worker \in Names :
    /\ tasks' = SetTaskError(backend, tasks, id, errLen, worker)
    /\ lastOp' = Call("set_task_error", [id |-> id, errLen |-> errLen, worker |-> worker], None)
    /\ UNCHANGED <<pipe, closer, harvest, loop, opener, app, backend, nextTaskId, links, nextLinkId, orgs, sources, now, workers>>

RetryOp ==
  \E id \in TaskIds :
    /\ tasks' = RetryTask(backend, tasks, id)
    /\ lastOp' = Call("retry_task", id, None)
    /\ UNCHANGED <<pipe, closer, harvest, loop, opener, app, backend, nextTaskId, links, nextLinkId, orgs, sources, now, workers>>

\* PostgresDB.requeue_all_tasks also deletes every org_sources and links row
RequeueAllOp ==
  /\ tasks' = RequeueAllTasks(backend, tasks)
  /\ links' = IF backend = "pg" THEN <<>> ELSE links
  /\ sources' = IF backend = "pg" THEN <<>> ELSE sources
  /\ lastOp' = Call("requeue_all_tasks", <<>>, None)
  /\ UNCHANGED <<pipe, closer, harvest, loop, opener, app, backend, nextTaskId, nextLinkId, orgs, now, workers>>

\* a delete_task that leaves the task's links in place
DeleteTaskOpKeepingLinks ==
  \E id \in TaskIds :
    /\ sources' = SelectSeq(sources, LAMBDA r : r.task_id # id)
    /\ tasks' = SelectSeq(tasks, LAMBDA r : r.id # id)
    /\ lastOp' = Call("delete_task", id, None)
    /\ UNCHANGED <<pipe, closer, harvest, loop, opener, app, backend, nextTaskId, links, nextLinkId, orgs, now, workers>>

DeleteTaskOp ==
  \E id \in TaskIds :
    /\ sources' = SelectSeq(sources, LAMBDA r : r.task_id # id)
    /\ links' = SelectSeq(links, LAMBDA r : r.task_id # id)
    /\ tasks' = SelectSeq(tasks, LAMBDA r : r.id # id)
    /\ lastOp' = Call("delete_task", id, None)
    /\ UNCHANGED <<pipe, closer, harvest, loop, opener, app, backend, nextTaskId, nextLinkId, orgs, now, workers>>

\* what a call gives back when it raises
Raised(e) == [raised |-> e]

\* api_task_requeue(id): db.requeue_task(id, reset_attempts=True,
\* clear_links=True, clear_sources=True); neither SQLiteDB nor PostgresDB
\* defines requeue_task, so the attribute lookup raises and no statement runs
RequeueTaskOp ==
  \E id \in TaskIds :
    /\ lastOp' = Call("requeue_task", id, Raised("AttributeError"))
    /\ UNCHANGED <<pipe, closer, harvest, loop, opener, app, backend, tasks, nextTaskId, links, nextLinkId, orgs, sources, now, workers>>

\* SQLiteDB: DELETE FROM each table, the AUTOINCREMENT sequences go on;
\* PostgresDB: TRUNCATE ... RESTART IDENTITY
ClearTasksOp ==
  /\ sources' = <<>>
  /\ orgs' = {}
  /\ links' = <<>>
  /\ tasks' = <<>>
  /\ nextTaskId' = IF backend = "pg" THEN 1 ELSE nextTaskId
  /\ nextLinkId' = IF backend = "pg" THEN 1 ELSE nextLinkId
  /\ lastOp' = Call("clear_tasks", <<>>, None)
  /\ UNCHANGED <<pipe, closer, harvest, loop, opener, app, backend, now, workers>>

\* the Job Store's task operations called one after another
NextTasks ==
  \/ AddTasksOp(TaskInputs, MaxTaskId)
  \/ PickOp
  \/ SetDoneOp({1})
  \/ SetWaitCaptchaOp({7}, {"links"})
  \/ SetErrorOp({7}, {"links"})
  \/ RetryOp
  \/ RequeueAllOp
  \/ DeleteTaskOp
  \/ ClearTasksOp

SpecTasks == Init /\ [][NextTasks]_vars

\* ------------------------------------------------------------ links, orgs, org_sources calls
Url(segs, trail) == [segs |-> segs, trail |-> trail]

\* .../org/name/1/, .../org/1/, .../maps/2 and .../org/name/ (no id)
SampleUrls ==
  {Url(<<"maps", "org", "name", "1">>, TRUE),
   Url(<<"maps", "org", "1">>, TRUE),
   Url(<<"maps", "2">>, FALSE),
   Url(<<"maps", "org", "name">>, TRUE)}

\* org dicts as parse_org_page returns them, and ones with keys missing
\* (upsert_org reads every key with org.get(key, ""))
OrgInputs ==
  {[org_id |-> "1", name |-> "n1", address |-> "a1", website |-> "w1",
    ypage |-> "y1", phone |-> "p1", social |-> "s1"],
   [org_id |-> "1", name |-> "n2", phone |-> "p2"],
   [org_id |-> "2", name |-> "n1", address |-> "a1", website |-> "w1",
    ypage |-> "y1", phone |-> "p1", social |-> "s1"],
   [org_id |-> "2", name |-> "n2", phone |-> "p2"],
   [name |-> "n3"]}

\* insert_links(task_row, urls, source_mode) for a row of tasks, as links_fn calls it
InsertLinksOp(Urls, n) ==
  \E task_row \in Range(tasks), urls \in SeqsUpTo(Urls, n) :
    \E st \in {InsertLinks(backend, [links |-> links, nextId |-> nextLinkId, inserted |-> 0],
                            task_row, urls, task_row.mode, 1)} :
       /\ st.nextId - 1 <= MaxLinkId
       /\ links' = st.links
       /\ nextLinkId' = st.nextId
       /\ lastOp' = Call("insert_links", [task_id |-> task_row.id, urls |-> urls], st.inserted)
       /\ UNCHANGED <<pipe, closer, harvest, loop, opener, app, backend, tasks, nextTaskId, orgs, sources, now, workers>>

FetchNextLinkOp ==
  /\ lastOp' = Call("fetch_next_link", <<>>, FetchNextLink(links, orgs))
  /\ UNCHANGED <<pipe, closer, harvest, loop, opener, app, backend, tasks, nextTaskId, links, nextLinkId, orgs, sources, now, workers>>

\* upsert_org(org); the record of the call also tells whether the call before
\* it was upsert_org with the same dict, and the rows the table held for the
\* dict's org_id when the call began
UpsertOrgOp(Orgs) ==
  \E org \in Orgs :
    /\ orgs' = UpsertOrg(orgs, org, now)
    /\ lastOp' = [op |-> "upsert_org", args |-> org, ret |-> None,
                  again |-> (lastOp.op = "upsert_org" /\ lastOp.args = org),
                  prior |-> {o \in orgs : o.org_id = Get(org, "org_id", "")}]
    /\ UNCHANGED <<pipe, closer, harvest, loop, opener, app, backend, tasks, nextTaskId, links, nextLinkId, sources, now, workers>>

\* add_source(org_id, link_row, mode) for a row of links, as _info_worker calls it
AddSourceOp(maxRows) ==
  \E link_row \in Range(links) :
    /\ Len(sources) < maxRows
    /\ sources' = Append(sources, SourceRow(link_row.org_id, link_row, link_row.source_mode))
    /\ lastOp' = Call("add_source", link_row.id, None)
    /\ UNCHANGED <<pipe, closer, harvest, loop, opener, app, backend, tasks, nextTaskId, links, nextLinkId, orgs, now, workers>>

\* time passes between two calls
Tick ==
  /\ now < MaxClock
  /\ now' = now + 1
  /\ UNCHANGED <<pipe, closer, harvest, loop, opener, app, backend, tasks, nextTaskId, links, nextLinkId, orgs, sources, lastOp, workers>>

\* every operation of the Job Store that writes, called one after another
NextStore ==
  \/ AddTasksOp({[city |-> "c1", mode |-> LINKS_SEARCH]}, MaxTaskId - 1)
  \/ PickOp
  \/ SetDoneOp({1})
  \/ SetWaitCaptchaOp({7}, {"links"})
  \/ SetErrorOp({7}, {"links"})
  \/ RetryOp
  \/ RequeueAllOp
  \/ DeleteTaskOp
  \/ ClearTasksOp
  \/ InsertLinksOp({Url(<<"maps", "org", "1">>, TRUE)}, 1)
  \/ FetchNextLinkOp
  \/ UpsertOrgOp({[org_id |-> "1", name |-> "n2", phone |-> "p2"]})
  \/ AddSourceOp(MaxSources)

SpecStore == Init /\ [][NextStore]_vars

\* ------------------------------------------------------------ the link-discovery loop
\* rows held FOR UPDATE by the open claim transactions of loops other than w
LockedByOthers(w) ==
  {workers[v].sel[1].id : v \in {x \in Workers \ {w} : workers[x].pc = "selected"}}

\* an UPDATE of row id by w waits while another transaction holds the row (PostgresDB)
CanWrite(w, id) == backend = "pg" => id \notin LockedByOthers(w)

\* Pipeline.start: the loop's thread starts
StartLoop(w) ==
  /\ workers[w].pc = "stopped"
  /\ workers' = [workers EXCEPT ![w].pc = "idle"]
  /\ UNCHANGED <<pipe, closer, harvest, loop, opener, app, backend, tasks, nextTaskId, links, nextLinkId, orgs, sources, now, lastOp>>

\* the claim's SELECT; with no row the claim returns None and the loop sleeps
\* and calls it again
LoopSelect(w) ==
  /\ workers[w].pc = "idle"
  /\ LET sel == SelectNextTask(backend, tasks, MaxAttempts, LockedByOthers(w))
     IN workers' = IF sel = None THEN workers
                   ELSE [workers EXCEPT ![w].pc = "selected", ![w].sel = sel]
  /\ UNCHANGED <<pipe, closer, harvest, loop, opener, app, backend, tasks, nextTaskId, links, nextLinkId, orgs, sources, now, lastOp>>

\* the claim's UPDATE and commit, and its return to the loop
LoopUpdate(w) ==
  /\ workers[w].pc = "selected"
  /\ LET row == workers[w].sel[1]
         after == ApplyClaim(tasks, row.id)
         ret == PickReturn(backend, row, after)
     IN /\ tasks' = after
        /\ workers' = IF ret = None
                      THEN [workers EXCEPT ![w].pc = "idle", ![w].sel = None]
                      ELSE [workers EXCEPT ![w].pc = "working", ![w].sel = None,
                                           ![w].task = ret]
  /\ UNCHANGED <<pipe, closer, harvest, loop, opener, app, backend, nextTaskId, links, nextLinkId, orgs, sources, now, lastOp>>

\* links_fn: the agent returns urls, insert_links stores them
LoopInsert(w, Urls, n) ==
  /\ workers[w].pc = "working"
  /\ \E urls \in SeqsUpTo(Urls, n) :
       \E st \in {InsertLinks(backend, [links |-> links, nextId |-> nextLinkId, inserted |-> 0],
                               workers[w].task[1], urls, workers[w].task[1].mode, 1)} :
          /\ st.nextId - 1 <= MaxLinkId
          /\ links' = st.links
          /\ nextLinkId' = st.nextId
          /\ workers' = [workers EXCEPT ![w].pc = "inserted", ![w].inserted = st.inserted]
  /\ UNCHANGED <<pipe, closer, harvest, loop, opener, app, backend, tasks, nextTaskId, orgs, sources, now, lastOp>>

\* set_task_links_done(task_id, inserted), then the next iteration
LoopDone(w) ==
  /\ workers[w].pc = "inserted"
  /\ CanWrite(w, workers[w].task[1].id)
  /\ tasks' = SetTaskLinksDone(tasks, workers[w].task[1].id, workers[w].inserted)
  /\ workers' = [workers EXCEPT ![w].pc = "idle", ![w].task = None, ![w].inserted = 0]
  /\ UNCHANGED <<pipe, closer, harvest, loop, opener, app, backend, nextTaskId, links, nextLinkId, orgs, sources, now, lastOp>>

\* except CaptchaError: set_task_waitcaptcha(task_id, err, worker="links")
LoopCaptcha(w, ErrLens) ==
  /\ workers[w].pc = "working"
  /\ CanWrite(w, workers[w].task[1].id)
  /\ \E errLen \in ErrLens :
       tasks' = SetTaskWaitCaptcha(backend, tasks, workers[w].task[1].id, errLen, "links")
  /\ workers' = [workers EXCEPT ![w].pc = "idle", ![w].task = None]
  /\ UNCHANGED <<pipe, closer, harvest, loop, opener, app, backend, nextTaskId, links, nextLinkId, orgs, sources, now, lastOp>>

\* except TimeoutException / except Exception: set_task_error(task_id, err, worker="links")
LoopError(w, ErrLens) ==
  /\ workers[w].pc = "working"
  /\ CanWrite(w, workers[w].task[1].id)
  /\ \E errLen \in ErrLens :
       tasks' = SetTaskError(backend, tasks, workers[w].task[1].id, errLen, "links")
  /\ workers' = [workers EXCEPT ![w].pc = "idle", ![w].task = None]
  /\ UNCHANGED <<pipe, closer, harvest, loop, opener, app, backend, nextTaskId, links, nextLinkId, orgs, sources, now, lastOp>>

\* the process dies: every loop is gone with what it held, the database stays
\* (an open PostgresDB transaction is rolled back, its UPDATE not yet sent)
Crash ==
  /\ \E w \in Workers : workers[w].pc # "stopped"
  /\ workers' = [w \in Workers |-> Stopped]
  /\ UNCHANGED <<pipe, closer, harvest, loop, opener, app, backend, tasks, nextTaskId, links, nextLinkId, orgs, sources, now, lastOp>>

\* one step of loop w
LoopStep(w) ==
  \/ LoopSelect(w)
  \/ LoopUpdate(w)
  \/ LoopInsert(w, {Url(<<"maps", "org", "1">>, TRUE)}, 1)
  \/ LoopDone(w)
  \/ LoopCaptcha(w, {7})
  \/ LoopError(w, {7})

\* two loops claiming at once and nothing else touching the tasks
NextLoops ==
  \/ AddTasksOp({[city |-> "c1", mode |-> LINKS_SEARCH]}, MaxTaskId)
  \/ \E w \in Workers : StartLoop(w)
  \/ \E w \in Workers : LoopStep(w)

SpecLoops == Init /\ [][NextLoops]_vars

\* the loops, and the process dying and being started again
NextCrash ==
  \/ AddTasksOp({[city |-> "c1", mode |-> LINKS_SEARCH]}, MaxTaskId - 1)
  \/ \E w \in Workers : StartLoop(w)
  \/ \E w \in Workers : LoopStep(w)
  \/ Crash

\* a started loop keeps running, and a stopped pipeline is started again
SpecCrashFair ==
  /\ Init
  /\ [][NextCrash]_vars
  /\ \A w \in Workers : WF_vars(StartLoop(w)) /\ WF_vars(LoopStep(w))

\* ------------------------------------------------------------ links and orgs
\* urls of two organizations and a url with no organization id
BatchUrls ==
  {Url(<<"org", "1">>, TRUE),
   Url(<<"maps", "2">>, FALSE),
   Url(<<"org", "name">>, TRUE)}

\* link batches stored for the tasks, and tasks deleted with their links
NextLinks ==
  \/ AddTasksOp({[city |-> "c1", mode |-> LINKS_SEARCH]}, MaxTaskId)
  \/ InsertLinksOp(BatchUrls, MaxUrls)
  \/ DeleteTaskOp

SpecLinks == Init /\ [][NextLinks]_vars

\* org pages stored one after another while time passes
NextOrgs ==
  \/ UpsertOrgOp(OrgInputs)
  \/ ClearTasksOp
  \/ Tick

SpecOrgs == Init /\ [][NextOrgs]_vars

\* tasks with links, organizations and provenance rows, and tasks deleted or
\* requeued one by one
NextDelete ==
  \/ AddTasksOp({[city |-> "c1", mode |-> LINKS_SEARCH]}, MaxTaskId)
  \/ InsertLinksOp({Url(<<"org", "1">>, TRUE), Url(<<"maps", "2">>, FALSE)}, 1)
  \/ UpsertOrgOp({[org_id |-> "1", name |-> "n2", phone |-> "p2"]})
  \/ AddSourceOp(MaxSources + 1)
  \/ DeleteTaskOp
  \/ RequeueTaskOp

SpecDelete == Init /\ [][NextDelete]_vars

\* lengths of err on both sides of the limit, with room for the tag or not
ErrLens == {0, MsgLimit - 8, MsgLimit - 7, MsgLimit, MsgLimit + 1}

\* claimed tasks reported as failed, with short and long messages
NextFail ==
  \/ AddTasksOp({[city |-> "c1", mode |-> LINKS_SEARCH]}, MaxTaskId - 1)
  \/ PickOp
  \/ SetWaitCaptchaOp(ErrLens, {"links", ""})
  \/ SetErrorOp(ErrLens, {"links", ""})

SpecFail == Init /\ [][NextFail]_vars

\* links of two organizations fetched for enrichment, organizations stored
NextFetch ==
  \/ AddTasksOp({[city |-> "c1", mode |-> LINKS_SEARCH]}, MaxTaskId - 1)
  \/ InsertLinksOp({Url(<<"org", "1">>, TRUE), Url(<<"maps", "2">>, FALSE)}, 1)
  \/ FetchNextLinkOp
  \/ UpsertOrgOp({[org_id |-> "1", name |-> "n2", phone |-> "p2"],
                  [org_id |-> "2", name |-> "n2", phone |-> "p2"]})
  \/ DeleteTaskOp

SpecFetch == Init /\ [][NextFetch]_vars

\* ------------------------------------------------------------ the enrichment loop
\* what the page of an organization shows
PageTexts == {"n1"}

\* parse_org_page(driver, url): org_id from the url, ypage the url up to "?",
\* the other fields read from the page
ParsedOrg(u, text) ==
  [org_id |-> OrgIdFromUrl(u), name |-> text, address |-> text, website |-> text,
   ypage |-> u, phone |-> text, social |-> text]

\* one iteration of _info_worker that found a link: info_fn returns the org
\* and it is stored with a provenance row built from the link, or info_fn
\* raises (captcha or any other error) and nothing is stored
InfoIteration(maxRows) ==
  /\ FetchNextLink(links, orgs) # None
  /\ LET link_row == FetchNextLink(links, orgs)[1]
     IN \/ \E text \in PageTexts :
             LET org == ParsedOrg(link_row.url, text)
             IN /\ org.org_id # ""
                /\ Len(sources) < maxRows
                /\ orgs' = UpsertOrg(orgs, org, now)
                /\ sources' = Append(sources,
                                     SourceRow(org.org_id, link_row,
                                               Get(link_row, "source_mode", "unknown")))
        \/ UNCHANGED <<orgs, sources>>
  /\ UNCHANGED <<pipe, closer, harvest, loop, opener, app, backend, tasks, nextTaskId, links, nextLinkId, now, lastOp, workers>>

\* link batches of the tasks and the enrichment of the links found
NextEnrich ==
  \/ AddTasksOp({[city |-> "c1", mode |-> LINKS_SEARCH]}, MaxTaskId)
  \/ InsertLinksOp({Url(<<"org", "1">>, TRUE), Url(<<"maps", "2">>, FALSE)}, 1)
  \/ InfoIteration(MaxSources + 1)

SpecEnrich == Init /\ [][NextEnrich]_vars

\* ------------------------------------------------------------ Pipeline: start and stop
\* is_alive(): one of the two threads is alive
IsAlive == \E l \in Loops : pipe.threads[l] = "alive"

\* start(): nothing when alive; else clear the event and start both threads
StartPipeline ==
  /\ ~IsAlive
  /\ pipe' = [pipe EXCEPT !.stop = FALSE, !.threads = [l \in Loops |-> "alive"]]
  /\ UNCHANGED jobVars

\* a loop creates its driver when it has work and no driver
WorkerOpensDriver(l) ==
  /\ pipe.threads[l] = "alive"
  /\ pipe.drivers[l] = "none"
  /\ pipe' = [pipe EXCEPT !.drivers[l] = "open"]
  /\ UNCHANGED jobVars

\* a loop sees the event set at the top of an iteration, leaves the while,
\* runs _close_drivers() and its thread ends; a loop whose task in flight
\* never returns does not get here
WorkerExits(l) ==
  /\ pipe.threads[l] = "alive"
  /\ pipe.stop
  /\ pipe' = [pipe EXCEPT !.threads[l] = "dead",
                          !.drivers = [x \in Loops |-> "none"]]
  /\ UNCHANGED jobVars

\* a join() that waits for the end of the thread however long it takes
JoinUntilEnded(thread) == thread = "dead"

\* Thread.join(timeout=...) returns when the thread has ended or, the thread
\* still alive, when the timeout has passed
JoinReturns(thread) == thread = "dead" \/ thread = "alive"

\* stop(wait=True) begins: self._stop.set()
StopCall ==
  /\ pipe.agents["stop"].pc = "off"
  /\ pipe' = [pipe EXCEPT !.stop = TRUE,
                          !.agents["stop"] = [AgentOff EXCEPT !.pc = "join_links"]]
  /\ UNCHANGED jobVars

\* if self._<l>_thread: self._<l>_thread.join(timeout=12)
Join(a, l, from, to) ==
  /\ pipe.agents[a].pc = from
  /\ pipe.threads[l] = "none" \/ JoinReturns(pipe.threads[l])
  /\ pipe' = [pipe EXCEPT !.agents[a].pc = to]
  /\ UNCHANGED jobVars

\* _close_drivers begins: for d in (self._links_driver, self._info_driver)
CloseBegin(a) ==
  /\ pipe.agents[a].pc = "close"
  /\ pipe' = [pipe EXCEPT !.agents[a].pc = "quit_links",
                          !.agents[a].seen = pipe.drivers]
  /\ UNCHANGED jobVars

\* _quit_driver_safely(d, timeout=4.0): nothing for None; else driver.quit()
\* in a thread of its own and t.join(timeout); quit returns or raises in
\* time, or the thread is still alive and taskkill is tried, every failure
\* swallowed
Quit(a, l, from, to) ==
  /\ pipe.agents[a].pc = from
  /\ IF pipe.agents[a].seen[l] = "none"
     THEN pipe' = [pipe EXCEPT !.agents[a].pc = to]
     ELSE \E quit \in {"dead", "alive"} :
            /\ JoinReturns(quit)
            /\ pipe' = [pipe EXCEPT !.agents[a].pc = to,
                                    !.agents[a].hung = @ \/ quit = "alive"]
  /\ UNCHANGED jobVars

\* _close_drivers ends: both attributes set to None; stop() returns, the
\* background thread goes on to its finally
Clear(a) ==
  /\ pipe.agents[a].pc = "clear"
  /\ pipe' = [pipe EXCEPT !.drivers = [l \in Loops |-> "none"],
                          !.agents[a].seen = AgentOff.seen,
                          !.agents[a].pc = IF a = "stop" THEN "off" ELSE "release"]
  /\ UNCHANGED jobVars

\* finally: with self._stop_lock: self._stopping = False; the thread ends
Release(a) ==
  /\ pipe.agents[a].pc = "release"
  /\ pipe' = [pipe EXCEPT !.stopping = FALSE, !.agents[a].pc = "off"]
  /\ UNCHANGED jobVars

\* one step of the join-and-close sequence run by thread a
JoinAndClose(a) ==
  \/ Join(a, "links", "join_links", "join_info")
  \/ Join(a, "info", "join_info", "close")
  \/ CloseBegin(a)
  \/ Quit(a, "links", "quit_links", "quit_info")
  \/ Quit(a, "info", "quit_info", "clear")
  \/ Clear(a)

\* one step of a background thread _bg: the sequence inside try, then finally
AgentStep(a) ==
  \/ JoinAndClose(a)
  \/ Release(a)

\* a stop_async without the check of _stopping
GuardNever(stopping) == FALSE

\* if self._stopping: return
GuardTaken(stopping) == stopping

\* a request handler calls stop_async()
AsyncCall(c) ==
  /\ pipe.callers[c].pc = "off"
  /\ pipe' = [pipe EXCEPT !.callers[c].pc = "entered"]
  /\ UNCHANGED jobVars

\* with self._stop_lock: return when a stop is in flight, else take the flag
AsyncGuard(c) ==
  /\ pipe.callers[c].pc = "entered"
  /\ pipe' = IF GuardTaken(pipe.stopping)
             THEN [pipe EXCEPT !.callers[c] = [pc |-> "off", last |-> "collapsed"]]
             ELSE [pipe EXCEPT !.stopping = TRUE, !.callers[c].pc = "set"]
  /\ UNCHANGED jobVars

\* self._stop.set()
AsyncSet(c) ==
  /\ pipe.callers[c].pc = "set"
  /\ pipe' = [pipe EXCEPT !.stop = TRUE, !.callers[c].pc = "spawn"]
  /\ UNCHANGED jobVars

\* threading.Thread(target=_bg, daemon=True).start(), and stop_async returns
AsyncSpawn(c) ==
  /\ pipe.callers[c].pc = "spawn"
  /\ \E a \in Agents \ {"stop"} :
       /\ pipe.agents[a].pc = "off"
       /\ pipe' = [pipe EXCEPT !.agents[a] = [AgentOff EXCEPT !.pc = "join_links"],
                               !.callers[c] = [pc |-> "off", last |-> "started"]]
  /\ UNCHANGED jobVars

\* one step of request handler c inside stop_async
CallerStep(c) ==
  \/ AsyncGuard(c)
  \/ AsyncSet(c)
  \/ AsyncSpawn(c)

\* a pipeline started and stopped by stop(), its loops opening drivers and
\* ending or not
NextStop ==
  \/ StartPipeline
  \/ \E l \in Loops : WorkerOpensDriver(l) \/ WorkerExits(l)
  \/ StopCall
  \/ JoinAndClose("stop")

\* the thread inside stop() keeps running; nothing makes a loop finish its
\* task or a quit return
SpecStopFair ==
  /\ Init
  /\ [][NextStop]_vars
  /\ WF_vars(JoinAndClose("stop"))

\* a pipeline started and stopped by overlapping stop_async calls
NextStopAsync ==
  \/ StartPipeline
  \/ \E l \in Loops : WorkerOpensDriver(l) \/ WorkerExits(l)
  \/ \E c \in Callers : AsyncCall(c) \/ CallerStep(c)
  \/ \E a \in Agents \ {"stop"} : AgentStep(a)

\* the request handlers inside stop_async and the background threads keep
\* running; nothing makes a loop finish its task or a quit return
SpecStopAsyncFair ==
  /\ Init
  /\ [][NextStopAsync]_vars
  /\ \A a \in Agents \ {"stop"} : WF_vars(AgentStep(a))
  /\ \A c \in Callers : WF_vars(CallerStep(c))

\* ------------------------------------------------------------ closing a session
\* what a caller hands to _quit_driver_safely: None, a driver whose service
\* process has no pid to read, a driver with one
DriverArgs == {"none", "nopid", "pid"}

\* timeout=3.0 in the loops, timeout=4.0 in _close_drivers
QuitTimeouts == {3, 4}

\* what subprocess.run(["taskkill", ...]) can raise: no such program, or the
\* system refusing to start it
FallbackFailures == {"FileNotFoundError", "PermissionError"}

\* a handler that lets every failure through
CaughtNever(e) == FALSE

\* except Exception: catches every failure of the quit and of the fallback
Caught(e) == e \in FallbackFailures \cup {"WebDriverException"}

\* t.join(timeout=timeout): the thread has ended, or the timeout has passed
TimedJoinOver(quit, waited, timeout) == quit # "running" \/ waited >= timeout

\* _quit_driver_safely(driver, timeout): return at once for None, else start
\* the thread that runs driver.quit() and join it
QuitCall ==
  /\ closer.pc = "off"
  /\ \E d \in DriverArgs, t \in QuitTimeouts :
       closer' = IF d = "none"
                 THEN [CloserOff EXCEPT !.timeout = t, !.out = "returned"]
                 ELSE [CloserOff EXCEPT !.pc = "join", !.driver = d, !.timeout = t,
                                        !.quit = "running"]
  /\ UNCHANGED <<pipe, harvest, loop, opener, app, backend, tasks, nextTaskId, links, nextLinkId, orgs, sources, now, lastOp, workers>>

\* _do_quit: driver.quit() returns, or raises and the failure is kept in exc;
\* the thread ends either way (it is a daemon: this can come after the call
\* has returned)
QuitThreadEnds ==
  /\ closer.quit = "running"
  /\ \E r \in {"returned", "WebDriverException"} :
       closer' = [closer EXCEPT !.quit = IF Caught(r) THEN "raised" ELSE r]
  /\ UNCHANGED <<pipe, harvest, loop, opener, app, backend, tasks, nextTaskId, links, nextLinkId, orgs, sources, now, lastOp, workers>>

\* a second passes inside t.join(timeout)
JoinTick ==
  /\ closer.pc = "join"
  /\ ~TimedJoinOver(closer.quit, closer.waited, closer.timeout)
  /\ closer' = [closer EXCEPT !.waited = @ + 1]
  /\ UNCHANGED <<pipe, harvest, loop, opener, app, backend, tasks, nextTaskId, links, nextLinkId, orgs, sources, now, lastOp, workers>>

\* t.join(timeout) returns
JoinOver ==
  /\ closer.pc = "join"
  /\ TimedJoinOver(closer.quit, closer.waited, closer.timeout)
  /\ closer' = [closer EXCEPT !.pc = "check"]
  /\ UNCHANGED <<pipe, harvest, loop, opener, app, backend, tasks, nextTaskId, links, nextLinkId, orgs, sources, now, lastOp, workers>>

\* if t.is_alive(): go on to the fallback, else return
AliveCheck ==
  /\ closer.pc = "check"
  /\ closer' = IF closer.quit = "running"
               THEN [closer EXCEPT !.pc = "fallback"]
               ELSE [closer EXCEPT !.pc = "off", !.out = "returned"]
  /\ UNCHANGED <<pipe, harvest, loop, opener, app, backend, tasks, nextTaskId, links, nextLinkId, orgs, sources, now, lastOp, workers>>

\* the fallback: read the pid by getattr with None defaults; with a pid run
\* taskkill, which returns or raises; both try blocks end in except
\* Exception: pass
Fallback ==
  /\ closer.pc = "fallback"
  /\ \E r \in (IF closer.driver = "pid" THEN {"ran"} \cup FallbackFailures ELSE {"nopid"}) :
       closer' = [closer EXCEPT !.pc = "off", !.fallback = r,
                                !.out = IF r \in FallbackFailures /\ ~Caught(r)
                                        THEN "raised" ELSE "returned"]
  /\ UNCHANGED <<pipe, harvest, loop, opener, app, backend, tasks, nextTaskId, links, nextLinkId, orgs, sources, now, lastOp, workers>>

\* one step of the thread that called _quit_driver_safely
CloserStep ==
  \/ JoinTick
  \/ JoinOver
  \/ AliveCheck
  \/ Fallback

\* sessions closed one after another, each quit returning, raising or hanging
NextClose ==
  \/ QuitCall
  \/ QuitThreadEnds
  \/ CloserStep

\* the calling thread keeps running and time passes; nothing makes
\* driver.quit() return
SpecCloseFair ==
  /\ Init
  /\ [][NextClose]_vars
  /\ WF_vars(CloserStep)

\* ------------------------------------------------------------ organization ids
\* path segments per url
MaxSegs == 4

\* segments: the literal "org", a name, digits, and the empty segment of "//"
SegAlphabet == {"org", "name", "", "1", "2"}

\* every url of up to MaxSegs segments, with and without a "/" at its end;
\* a url whose last segment is empty is written with one segment less and
\* the "/"
UrlInputs ==
  {Url(s, t) : s \in {x \in SeqsUpTo(SegAlphabet, MaxSegs) : Len(x) > 0 => x[Len(x)] # ""},
               t \in BOOLEAN}

\* org_id_from_url(url) called on its own; the function keeps no state, so
\* one call per behaviour shows all it can do
OrgIdCall ==
  /\ lastOp.op = "init"
  /\ \E u \in UrlInputs : lastOp' = Call("org_id_from_url", u, OrgIdFromUrl(u))
  /\ UNCHANGED <<pipe, closer, harvest, loop, opener, app, backend, tasks, nextTaskId, links, nextLinkId, orgs, sources, now, workers>>

NextOrgId == OrgIdCall

SpecOrgId == Init /\ [][NextOrgId]_vars

\* ------------------------------------------------------------ harvesting links
\* the hard cap on passes, range(4000) in the code, scaled down
PassCap == 6

\* max_idle takes the values 1..MaxIdle (12 by default in the code)
MaxIdle == 2

\* an anchor's href: the url it points to and whether a query string follows
Href(u, query) == [url |-> u, query |-> query]

\* anchors a results page can show: three organization pages (two of them of
\* one organization), the first also with a query string, and a link that is
\* no organization page
Hrefs ==
  {Href(Url(<<"maps", "org", "1">>, TRUE), FALSE),
   Href(Url(<<"maps", "org", "1">>, TRUE), TRUE),
   Href(Url(<<"maps", "org", "name", "2">>, TRUE), FALSE),
   Href(Url(<<"maps", "org", "2">>, TRUE), FALSE),
   Href(Url(<<"maps", "1">>, FALSE), FALSE)}

\* "/maps/org/" in abs_url
IsOrgUrl(u) ==
  \E i \in 1..Len(u.segs) :
    /\ u.segs[i] = "maps"
    /\ i + 1 <= Len(u.segs)
    /\ u.segs[i + 1] = "org"
    /\ (i + 1 < Len(u.segs) \/ u.trail)

\* _normalize_org_url: None unless an organization page, else the url with
\* its query string cut off
NormalizeOrgUrl(h) == IF IsOrgUrl(h.url) THEN Some(h.url) ELSE None

\* the urls one pass adds to links
PassLinks(items) == {NormalizeOrgUrl(h)[1] : h \in {x \in items : NormalizeOrgUrl(x) # None}}

\* faulty variant of NextIdle: idle is not set back when the set grows
NextIdleNoReset(idle, cnt, last_cnt) == IF cnt = last_cnt THEN idle + 1 ELSE idle

\* if len(links) == last_cnt: idle += 1, else: idle = 0
NextIdle(idle, cnt, last_cnt) == IF cnt = last_cnt THEN idle + 1 ELSE 0

\* faulty variant of CaptchaAbort: the loop is left by break and the list
\* gathered so far is returned
CaptchaReturnsPartial(h) == [h EXCEPT !.pc = "off", !.pass = @ + 1, !.out = h.links]

\* if is_captcha(driver): raise CaptchaError: the call ends with no list
CaptchaAbort(h) == [h EXCEPT !.pc = "off", !.pass = @ + 1, !.raised = "CaptchaError"]

\* collect_links_from_list is entered with max_idle one of Ms
HarvestBegin(Ms) ==
  \E m \in Ms : harvest' = [HarvestOff EXCEPT !.pc = "pass", !.max_idle = m]

\* collect_links_from_list(driver, debug_dir, save_debug, max_idle) is called
HarvestCall ==
  /\ harvest.pc = "off"
  /\ HarvestBegin(1..MaxIdle)
  /\ UNCHANGED <<pipe, closer, loop, opener, app, backend, tasks, nextTaskId, links, nextLinkId, orgs, sources, now, lastOp, workers>>

\* a for loop with no bound on its passes
PassesNeverUsedUp(n) == FALSE

\* for _ in range(4000): the loop ends once n passes were made
PassesUsedUp(n) == n >= PassCap

\* the locals h after one more pass of the for loop, the page showing a
\* captcha or the anchors items: raise on a captcha; else add the normalized
\* hrefs, count the idle passes, return list(links) when idle reaches
\* max_idle or the passes are used up, else scroll and sleep
AfterPass(h, captcha, items) ==
  IF captcha
  THEN [CaptchaAbort(h) EXCEPT !.captcha = TRUE]
  ELSE LET ls == h.links \cup PassLinks(items)
           idle == NextIdle(h.idle, Cardinality(ls), h.last_cnt)
           over == idle >= h.max_idle \/ PassesUsedUp(h.pass + 1)
       IN [h EXCEPT !.pass = @ + 1,
                    !.links = ls,
                    !.idle = idle,
                    !.last_cnt = Cardinality(ls),
                    !.seen = Append(@, ls),
                    !.pc = IF over THEN "off" ELSE "pass",
                    !.out = IF over THEN ls ELSE {}]

\* one pass of the for loop
HarvestPass(captcha, items) ==
  /\ harvest.pc = "pass"
  /\ ~PassesUsedUp(harvest.pass)
  /\ harvest' = AfterPass(harvest, captcha, items)

\* the harvest on its own, the page free to show any anchors at each pass
HarvestStep ==
  /\ \E items \in SUBSET Hrefs : HarvestPass(FALSE, items)
  /\ UNCHANGED <<pipe, closer, loop, opener, app, backend, tasks, nextTaskId, links, nextLinkId, orgs, sources, now, lastOp, workers>>

NextHarvest ==
  \/ HarvestCall
  \/ HarvestStep

SpecHarvest == Init /\ [][NextHarvest]_vars

\* ------------------------------------------------------------ exclude filtering
\* A url or an exclude substring, where letter case matters, is the sequence
\* of its characters.
\* urls per harvested list
MaxHrefs == 3
\* exclude substrings per configuration
MaxExcludes == 2

\* harvested urls, in letters of both cases
UrlTexts == {<<"a", "B">>, <<"b", "a">>, <<"A", "b", "a">>, <<"b">>}

\* exclude entries: the empty string (or None), and substrings in both cases
ExcludeTexts == {<<>>, <<"B">>, <<"a", "b">>, <<"b", "A">>}

\* str.lower() of one character
LowerChar(c) == IF c = "A" THEN "a" ELSE IF c = "B" THEN "b" ELSE c

\* str.lower()
Lower(s) == [i \in 1..Len(s) |-> LowerChar(s[i])]

\* x in y for two str
IsIn(x, y) == \E i \in 0..(Len(y) - Len(x)) : SubSeq(y, i + 1, i + Len(x)) = x

\* faulty variant of IsBad: the url is compared as harvested, not lowered
IsBadCaseSensitive(h, excludes) ==
  \E j \in 1..Len(excludes) :
    LET exs == Lower(excludes[j])
    IN exs # <<>> /\ IsIn(exs, h)

\* the inner loop of collect_task_links: bad when some exclude, lowered, is
\* not empty and is in the lowered url
IsBad(h, excludes) ==
  \E j \in 1..Len(excludes) :
    LET exs == Lower(excludes[j])
    IN exs # <<>> /\ IsIn(exs, Lower(h))

\* the filtering loop of collect_task_links: the urls that are not bad, in
\* the order of hrefs
FilterUrls(hrefs, excludes) == SelectSeq(hrefs, LAMBDA h : ~IsBad(h, excludes))

\* lists of distinct urls, as list(links) of a set gives them
HrefLists ==
  {s \in SeqsUpTo(UrlTexts, MaxHrefs) : \A i, j \in 1..Len(s) : s[i] = s[j] => i = j}

\* the filtering of collect_task_links applied to a harvested list; it keeps
\* no state, so one call per behaviour shows all it can do
FilterCall ==
  /\ lastOp.op = "init"
  /\ \E hrefs \in HrefLists, excludes \in SeqsUpTo(ExcludeTexts, MaxExcludes) :
       lastOp' = Call("collect_task_links", [hrefs |-> hrefs, excludes |-> excludes],
                      FilterUrls(hrefs, excludes))
  /\ UNCHANGED <<pipe, closer, harvest, loop, opener, app, backend, tasks, nextTaskId, links, nextLinkId, orgs, sources, now, workers>>

NextFilter == FilterCall

SpecFilter == Init /\ [][NextFilter]_vars

\* ------------------------------------------------------------ the two loops, step by step
\* what a browser interaction can raise, by the except clause that takes it:
\* CaptchaError, selenium's TimeoutException, and any other Exception
\* (PageStructureError, WebDriverException, ...)
FailureClasses == {"CaptchaError", "TimeoutException", "Exception"}

\* anchors the results page shows while a loop harvests
LoopHrefs ==
  {Href(Url(<<"maps", "org", "1">>, TRUE), FALSE),
   Href(Url(<<"maps", "org", "name", "2">>, TRUE), FALSE)}

\* length of the error text a failure carries
LoopErrLen == 7

\* a loop with only its two named except clauses
LoopCatchesNamedOnly(l, e) ==
  IF l = "links" THEN e \in {"CaptchaError", "TimeoutException"}
  ELSE e = "CaptchaError"

\* the except clauses around an iteration take e: except CaptchaError,
\* (links loop) except TimeoutException, except Exception
LoopCatches(l, e) ==
  IF l = "links" THEN e \in {"CaptchaError", "TimeoutException", "Exception"}
  ELSE e \in {"CaptchaError", "Exception"} \/ e = "TimeoutException"

\* a links loop that marks every failure with set_task_error
FailureWriteAllError(b, ts, id, e) == SetTaskError(b, ts, id, LoopErrLen, "links")

\* the status write of the links loop's except clauses: set_task_waitcaptcha
\* for a captcha, set_task_error for a timeout and for anything else
FailureWrite(b, ts, id, e) ==
  IF e = "CaptchaError" THEN SetTaskWaitCaptcha(b, ts, id, LoopErrLen, "links")
  ELSE SetTaskError(b, ts, id, LoopErrLen, "links")

\* a loop whose except clauses all leave the driver as it is
KeepsDriverAlways(l, e) == TRUE

\* the except clause that takes e leaves the loop's driver as it is: all but
\* the last clause, except Exception, which quits it and sets it to None
KeepsDriver(l, e) ==
  IF l = "links" THEN e \in {"CaptchaError", "TimeoutException"}
  ELSE e = "CaptchaError"

\* a loop that goes on to its next claim without testing the event
AfterIterationNoTest(l) == "pick"

\* the end of the loop body and every continue lead to the while test
AfterIteration(l) == "top"

\* start() with the loops followed step by step: nothing when alive; else
\* clear the event and start both threads
StartWorkers ==
  /\ ~IsAlive
  /\ pipe' = [pipe EXCEPT !.stop = FALSE, !.threads = [l \in Loops |-> "alive"]]
  /\ loop' = [l \in Loops |-> [LoopIdle EXCEPT !.pc = "top"]]
  /\ UNCHANGED <<closer, harvest, opener, app, backend, tasks, nextTaskId, links, nextLinkId, orgs, sources, now, lastOp, workers>>

\* self._stop.set(), by stop() or stop_async()
StopSignal ==
  /\ IsAlive
  /\ ~pipe.stop
  /\ pipe' = [pipe EXCEPT !.stop = TRUE]
  /\ UNCHANGED <<closer, harvest, loop, opener, app, backend, tasks, nextTaskId, links, nextLinkId, orgs, sources, now, lastOp, workers>>

\* while not self._stop.is_set()
LoopCheck(l) ==
  /\ loop[l].pc = "top"
  /\ loop' = [loop EXCEPT ![l].pc = IF pipe.stop THEN "exit" ELSE "pick"]
  /\ UNCHANGED <<pipe, closer, harvest, opener, app, backend, tasks, nextTaskId, links, nextLinkId, orgs, sources, now, lastOp, workers>>

\* a loop whose iteration is over: its locals are dead, it is at the while
\* test again
Iterated(l) == [LoopIdle EXCEPT !.pc = AfterIteration(l)]

\* what a loop holds once it has taken row (None: nothing to do, it sleeps
\* and continues)
Taken(l, row) ==
  IF row = None
  THEN Iterated(l)
  ELSE [loop[l] EXCEPT !.pc = "claimed", !.item = row]

\* task = self.db.pick_next_task_for_links(max_attempts=max_attempts)
LinksPick ==
  /\ loop["links"].pc = "pick"
  /\ LET sel == SelectNextTask(backend, tasks, MaxAttempts, {})
     IN IF sel = None
        THEN /\ loop' = [loop EXCEPT !["links"] = Taken("links", None)]
             /\ UNCHANGED tasks
        ELSE /\ tasks' = ApplyClaim(tasks, sel[1].id)
             /\ loop' = [loop EXCEPT !["links"] =
                           Taken("links", PickReturn(backend, sel[1], ApplyClaim(tasks, sel[1].id)))]
  /\ UNCHANGED <<pipe, closer, harvest, opener, app, backend, nextTaskId, links, nextLinkId, orgs, sources, now, lastOp, workers>>

\* link_row = self.db.fetch_next_link()
InfoPick ==
  /\ loop["info"].pc = "pick"
  /\ loop' = [loop EXCEPT !["info"] = Taken("info", FetchNextLink(links, orgs))]
  /\ UNCHANGED <<pipe, closer, harvest, opener, app, backend, tasks, nextTaskId, links, nextLinkId, orgs, sources, now, lastOp, workers>>

\* if self._<l>_driver is None: make_driver(...), which returns the driver or
\* raises; then the agent is called with the driver
LoopOpen(l) ==
  /\ loop[l].pc = "claimed"
  /\ IF pipe.drivers[l] = "none"
     THEN \/ /\ pipe' = [pipe EXCEPT !.drivers[l] = "open"]
             /\ loop' = [loop EXCEPT ![l].pc = "agent"]
          \/ /\ \E e \in {"TimeoutException", "Exception"} :
                  loop' = [loop EXCEPT ![l].pc = "handle", ![l].outcome = e]
             /\ UNCHANGED pipe
     ELSE /\ loop' = [loop EXCEPT ![l].pc = "agent"]
          /\ UNCHANGED pipe
  /\ UNCHANGED <<closer, harvest, opener, app, backend, tasks, nextTaskId, links, nextLinkId, orgs, sources, now, lastOp, workers>>

\* links_fn -> collect_task_links up to the harvest: opening the city and the
\* results page raises, or collect_links_from_list is entered
LinksAgentBegin ==
  /\ loop["links"].pc = "agent"
  /\ \/ /\ \E e \in FailureClasses :
             loop' = [loop EXCEPT !["links"].pc = "handle", !["links"].outcome = e]
        /\ UNCHANGED harvest
     \/ /\ HarvestBegin({1})
        /\ loop' = [loop EXCEPT !["links"].pc = "harvest"]
  /\ UNCHANGED <<pipe, closer, opener, app, backend, tasks, nextTaskId, links, nextLinkId, orgs, sources, now, lastOp, workers>>

\* one pass of collect_links_from_list inside links_fn: the page shows a
\* captcha or some anchors; a CaptchaError leaves links_fn at once; a
\* returned list goes on to insert_links (the locals of a call that returned
\* are dropped; those of a call that met a captcha are kept until the
\* iteration ends; the record of what each pass saw is not kept here)
LinksHarvest ==
  /\ loop["links"].pc = "harvest"
  /\ \E captcha \in BOOLEAN, items \in SUBSET LoopHrefs :
       \E h \in {AfterPass(harvest, captcha, items)} :
          /\ harvest' = IF h.pc = "off" /\ ~h.captcha THEN HarvestOff
                         ELSE [h EXCEPT !.seen = <<>>]
          /\ loop' = IF h.raised # ""
                     THEN [loop EXCEPT !["links"].pc = "handle", !["links"].outcome = h.raised]
                     ELSE IF h.pc = "off"
                     THEN [loop EXCEPT !["links"].pc = "insert", !["links"].result = Some(h.out)]
                     ELSE loop
  /\ UNCHANGED <<pipe, closer, opener, app, backend, tasks, nextTaskId, links, nextLinkId, orgs, sources, now, lastOp, workers>>

\* the orders list(links) can give the set S
RECURSIVE ListsOf(_)
ListsOf(S) ==
  IF S = {} THEN {<<>>}
  ELSE UNION {{<<x>> \o t : t \in ListsOf(S \ {x})} : x \in S}

\* links_fn, no excludes configured: db.insert_links(task_row, urls,
\* source_mode=task_row.get("mode", "unknown")) and the count is returned
LinksInsert ==
  /\ loop["links"].pc = "insert"
  /\ \E urls \in ListsOf(loop["links"].result[1]) :
       \E st \in {InsertLinks(backend, [links |-> links, nextId |-> nextLinkId, inserted |-> 0],
                               loop["links"].item[1], urls,
                               Get(loop["links"].item[1], "mode", "unknown"), 1)} :
          /\ links' = st.links
          /\ nextLinkId' = st.nextId
          /\ loop' = [loop EXCEPT !["links"].pc = "done", !["links"].result = Some(st.inserted)]
  /\ UNCHANGED <<pipe, closer, harvest, opener, app, backend, tasks, nextTaskId, orgs, sources, now, lastOp, workers>>

\* self.db.set_task_links_done(task_id, inserted=inserted)
LinksDone ==
  /\ loop["links"].pc = "done"
  /\ tasks' = SetTaskLinksDone(tasks, loop["links"].item[1].id, loop["links"].result[1])
  /\ loop' = [loop EXCEPT !["links"] = Iterated("links")]
  /\ harvest' = HarvestOff
  /\ UNCHANGED <<pipe, closer, opener, app, backend, nextTaskId, links, nextLinkId, orgs, sources, now, lastOp, workers>>

\* org = self.info_fn(self._info_driver, link_row): parse_org_page returns the
\* organization read from the page or raises
InfoAgent ==
  /\ loop["info"].pc = "agent"
  /\ \/ \E e \in FailureClasses :
          loop' = [loop EXCEPT !["info"].pc = "handle", !["info"].outcome = e]
     \/ \E text \in PageTexts :
          loop' = [loop EXCEPT !["info"].pc = "store",
                               !["info"].result = Some(ParsedOrg(loop["info"].item[1].url, text))]
  /\ UNCHANGED <<pipe, closer, harvest, opener, app, backend, tasks, nextTaskId, links, nextLinkId, orgs, sources, now, lastOp, workers>>

\* if org and org.get("org_id"): upsert_org(org); add_source(org_id,
\* link_row, mode=link_row.get("source_mode", "unknown"))
InfoStore ==
  /\ loop["info"].pc = "store"
  /\ LET org == loop["info"].result[1]
         link_row == loop["info"].item[1]
     IN IF Get(org, "org_id", "") # ""
        THEN /\ orgs' = UpsertOrg(orgs, org, now)
             /\ sources' = Append(sources,
                                  SourceRow(org.org_id, link_row,
                                            Get(link_row, "source_mode", "unknown")))
        ELSE UNCHANGED <<orgs, sources>>
  /\ loop' = [loop EXCEPT !["info"] = Iterated("info")]
  /\ UNCHANGED <<pipe, closer, harvest, opener, app, backend, tasks, nextTaskId, links, nextLinkId, now, lastOp, workers>>

\* the except clause that takes the failure: (links loop) the status write;
\* the driver kept, or quit within its timeout and set to None; then sleep.
\* A failure no clause takes ends the thread.
LoopHandle(l) ==
  /\ loop[l].pc = "handle"
  /\ LET e == loop[l].outcome
     IN IF LoopCatches(l, e)
        THEN /\ tasks' = IF l = "links"
                         THEN FailureWrite(backend, tasks, loop[l].item[1].id, e)
                         ELSE tasks
             /\ pipe' = IF KeepsDriver(l, e) THEN pipe
                        ELSE [pipe EXCEPT !.drivers[l] = "none"]
             /\ loop' = [loop EXCEPT ![l] = Iterated(l)]
        ELSE /\ pipe' = [pipe EXCEPT !.threads[l] = "crashed"]
             /\ loop' = [loop EXCEPT ![l].pc = "off"]
             /\ UNCHANGED tasks
  /\ harvest' = IF l = "links" THEN HarvestOff ELSE harvest
  /\ UNCHANGED <<closer, opener, app, backend, nextTaskId, links, nextLinkId, orgs, sources, now, lastOp, workers>>

\* the while is left: self._close_drivers(), and the thread ends
LoopExit(l) ==
  /\ loop[l].pc = "exit"
  /\ pipe' = [pipe EXCEPT !.threads[l] = "dead", !.drivers = [x \in Loops |-> "none"]]
  /\ loop' = [loop EXCEPT ![l] = LoopIdle]
  /\ UNCHANGED <<closer, harvest, opener, app, backend, tasks, nextTaskId, links, nextLinkId, orgs, sources, now, lastOp, workers>>

\* one step of _links_worker
LinksStep ==
  \/ LoopCheck("links")
  \/ LinksPick
  \/ LoopOpen("links")
  \/ LinksAgentBegin
  \/ LinksHarvest
  \/ LinksInsert
  \/ LinksDone
  \/ LoopHandle("links")
  \/ LoopExit("links")

\* one step of _info_worker
InfoStep ==
  \/ LoopCheck("info")
  \/ InfoPick
  \/ LoopOpen("info")
  \/ InfoAgent
  \/ InfoStore
  \/ LoopHandle("info")
  \/ LoopExit("info")

\* tasks added, the pipeline started and signalled to stop, and its two loops
NextWorkers ==
  \/ AddTasksOp({[city |-> "c1", mode |-> LINKS_SEARCH]}, MaxTaskId - 1)
  \/ StartWorkers
  \/ StopSignal
  \/ LinksStep
  \/ InfoStep

SpecWorkers == Init /\ [][NextWorkers]_vars

\* both loop threads keep running and every agent call comes back
SpecWorkersFair ==
  /\ Init
  /\ [][NextWorkers]_vars
  /\ WF_vars(LinksStep)
  /\ WF_vars(InfoStep)

\* ------------------------------------------------------------ opening a session
\* profile directories make_driver is given by the two loops
ProfileDirs == {"links", "info"}

\* the directory tempfile.mkdtemp(prefix="yandex_profile_fallback_") makes
FallbackDir == "fallback"

\* what webdriver.Chrome(...) can raise: the class of the exception and
\* whether its message holds "DevToolsActivePort" or "session not created"
LaunchFailures ==
  [cls : {"SessionNotCreatedException", "WebDriverException", "Exception"},
   marked : BOOLEAN]

\* webdriver.Chrome returned the driver
LaunchOk == [cls |-> "ok", marked |-> FALSE]

\* a launch: webdriver.Chrome returns the driver or raises
LaunchOutcomes == {LaunchOk} \cup LaunchFailures

\* a cleanup that removes nothing
CleanupNothing(locked, dir) == locked

\* _cleanup_profile_locks(dir): SingletonLock, SingletonCookie,
\* SingletonSocket and DevToolsActivePort are unlinked from dir
CleanupProfileLocks(locked, dir) == locked \ {dir}

\* except SessionNotCreatedException takes e (the first clause)
IsSessionNotCreated(e) == e.cls = "SessionNotCreatedException"

\* except WebDriverException takes e: a WebDriverException that the first
\* clause did not take
IsOtherWebDriverException(e) == e.cls = "WebDriverException"

\* if "DevToolsActivePort" in msg or "session not created" in msg
NamesPortOrSession(e) == e.marked

\* the directories that hold lock files once Chrome was launched on dir:
\* a Chrome that did not start may leave its lock files behind
LocksAfter(locked, dir, outcome) ==
  IF outcome = LaunchOk THEN {locked} ELSE {locked, locked \cup {dir}}

\* webdriver.Chrome(service, options) on dir: the launch is recorded with
\* the directory and whether lock files lay in it
Launched(o, dir) == Append(o.launches, [dir |-> dir, locks |-> dir \in o.locked])

\* make_driver(profile_dir, headless) up to its first launch:
\* _find_chromedriver() returns or raises FileNotFoundError; the directory
\* is made; its lock files, left by an earlier crash or not, are cleaned up
OpenCall ==
  /\ opener.pc = "off"
  /\ \E dir \in ProfileDirs, found \in BOOLEAN : \E stale \in SUBSET {dir} :
       opener' = IF found
                 THEN [OpenerOff EXCEPT !.pc = "launch", !.profile = dir,
                                        !.locked = CleanupProfileLocks(stale, dir)]
                 ELSE [OpenerOff EXCEPT !.profile = dir, !.locked = stale,
                                        !.out = "FileNotFoundError"]
  /\ UNCHANGED <<pipe, closer, harvest, loop, app, backend, tasks, nextTaskId, links, nextLinkId, orgs, sources, now, lastOp, workers>>

\* try: return webdriver.Chrome(service=service, options=opts), and the
\* except clause that takes a failure: the first one retries or raises,
\* the second one falls back; any other exception leaves make_driver
OpenLaunch ==
  /\ opener.pc = "launch"
  /\ \E r \in LaunchOutcomes :
       \E locked \in LocksAfter(opener.locked, opener.profile, r) :
         opener' =
           LET o == [opener EXCEPT !.launches = Launched(opener, opener.profile),
                                   !.locked = locked]
           IN IF r = LaunchOk THEN [o EXCEPT !.pc = "off", !.out = "returned"]
              ELSE IF IsSessionNotCreated(r)
              THEN IF NamesPortOrSession(r)
                   THEN [o EXCEPT !.pc = "retry", !.failure = r]
                   ELSE [o EXCEPT !.pc = "off", !.failure = r, !.out = r.cls]
              ELSE IF IsOtherWebDriverException(r)
              THEN [o EXCEPT !.pc = "fallback", !.failure = r]
              ELSE [o EXCEPT !.pc = "off", !.failure = r, !.out = r.cls]
  /\ UNCHANGED <<pipe, closer, harvest, loop, app, backend, tasks, nextTaskId, links, nextLinkId, orgs, sources, now, lastOp, workers>>

\* _cleanup_profile_locks(profile_dir) and the second launch on the same
\* directory; except Exception: pass, then raise gives the first exception
OpenRetry ==
  /\ opener.pc = "retry"
  /\ \E r \in LaunchOutcomes :
       LET cleaned == [opener EXCEPT !.locked = CleanupProfileLocks(@, opener.profile)]
       IN \E locked \in LocksAfter(cleaned.locked, opener.profile, r) :
            opener' = [cleaned EXCEPT !.launches = Launched(cleaned, opener.profile),
                                      !.locked = locked,
                                      !.pc = "off",
                                      !.out = IF r = LaunchOk THEN "returned"
                                              ELSE opener.failure.cls]
  /\ UNCHANGED <<pipe, closer, harvest, loop, app, backend, tasks, nextTaskId, links, nextLinkId, orgs, sources, now, lastOp, workers>>

\* tmp = tempfile.mkdtemp(...); _cleanup_profile_locks(tmp); return
\* webdriver.Chrome(service=service, options=opts2): what this launch raises
\* leaves make_driver
OpenFallback ==
  /\ opener.pc = "fallback"
  /\ \E r \in LaunchOutcomes :
       LET cleaned == [opener EXCEPT !.locked = CleanupProfileLocks(@, FallbackDir)]
       IN \E locked \in LocksAfter(cleaned.locked, FallbackDir, r) :
            opener' = [cleaned EXCEPT !.launches = Launched(cleaned, FallbackDir),
                                      !.locked = locked,
                                      !.pc = "off",
                                      !.out = IF r = LaunchOk THEN "returned" ELSE r.cls]
  /\ UNCHANGED <<pipe, closer, harvest, loop, app, backend, tasks, nextTaskId, links, nextLinkId, orgs, sources, now, lastOp, workers>>

NextOpen ==
  \/ OpenCall
  \/ OpenLaunch
  \/ OpenRetry
  \/ OpenFallback

SpecOpen == Init /\ [][NextOpen]_vars

\* ------------------------------------------------------------ the control surface
\* Pipeline.is_alive() of object p
PipelineAlive(p) == \E l \in Loops : app.pipes[p].threads[l] = "alive"

\* _get_pipeline_running(): False when _state["pipeline"] is None; True when
\* it is alive; else it is forgotten and False is returned
PipelineRunning == app.pipeline # None /\ PipelineAlive(app.pipeline[1])

\* what _get_pipeline_running() leaves in _state["pipeline"]
AfterRunningTest == IF PipelineRunning THEN app.pipeline ELSE None

\* POST /api/start: nothing when _get_pipeline_running(); else a new
\* Pipeline is made and started (its event cleared, both threads started)
\* and kept in _state["pipeline"]
ApiStart ==
  /\ IF PipelineRunning
     THEN UNCHANGED app
     ELSE /\ app.made < MaxPipelines
          /\ app' = [app EXCEPT !.made = @ + 1,
                                !.pipes[app.made + 1] =
                                   [PipelineNew EXCEPT !.threads = [l \in Loops |-> "alive"]],
                                !.pipeline = Some(app.made + 1)]
  /\ lastOp' = Call("api_start", <<>>, Some(TRUE))
  /\ UNCHANGED <<pipe, closer, harvest, loop, opener, backend, tasks, nextTaskId, links, nextLinkId, orgs, sources, now, workers>>

\* POST /api/stop: p.stop_async() on the Pipeline kept (nothing more when
\* it is stopping already; else _stopping and the event are set and the
\* background thread is started), and _state["pipeline"] = None
ApiStop ==
  /\ app.pipeline # None
  /\ LET p == app.pipeline[1]
     IN app' = [app EXCEPT !.pipeline = None,
                           !.pipes[p] = IF app.pipes[p].stopping THEN @
                                        ELSE [@ EXCEPT !.stopping = TRUE, !.stop = TRUE]]
  /\ lastOp' = Call("api_stop", <<>>, Some(FALSE))
  /\ UNCHANGED <<pipe, closer, harvest, loop, opener, backend, tasks, nextTaskId, links, nextLinkId, orgs, sources, now, workers>>

\* GET /api/status: running is _get_pipeline_running()
ApiStatus ==
  /\ app' = [app EXCEPT !.pipeline = AfterRunningTest]
  /\ lastOp' = Call("api_status", <<>>, Some(PipelineRunning))
  /\ UNCHANGED <<pipe, closer, harvest, loop, opener, backend, tasks, nextTaskId, links, nextLinkId, orgs, sources, now, workers>>

\* loop l of Pipeline p finds the event set at its while test, after the
\* task it had in hand, and its thread ends
PipelineLoopEnds(p, l) ==
  /\ app.pipes[p].threads[l] = "alive"
  /\ app.pipes[p].stop
  /\ app' = [app EXCEPT !.pipes[p].threads[l] = "dead"]
  /\ UNCHANGED <<pipe, closer, harvest, loop, opener, backend, tasks, nextTaskId, links, nextLinkId, orgs, sources, now, lastOp, workers>>

\* the background thread of stop_async ends: its joins returned (the
\* thread ended or 12 seconds passed), the drivers were closed, and
\* _stopping is cleared
PipelineBgEnds(p) ==
  /\ app.pipes[p].stopping
  /\ app' = [app EXCEPT !.pipes[p].stopping = FALSE]
  /\ UNCHANGED <<pipe, closer, harvest, loop, opener, backend, tasks, nextTaskId, links, nextLinkId, orgs, sources, now, lastOp, workers>>

\* requests to the control surface, and the loops and background threads of
\* the Pipeline objects made
NextControl ==
  \/ ApiStart
  \/ ApiStop
  \/ ApiStatus
  \/ \E p \in Pipelines, l \in Loops : PipelineLoopEnds(p, l)
  \/ \E p \in Pipelines : PipelineBgEnds(p)

SpecControl == Init /\ [][NextControl]_vars

\* ------------------------------------------------------------ the pipeline and the operator
\* the info loop followed step by step while links are inserted for the
\* tasks and the operator deletes tasks and requeues them all
NextPurged ==
  \/ AddTasksOp({[city |-> "c1", mode |-> LINKS_SEARCH]}, MaxTaskId)
  \/ InsertLinksOp({Url(<<"maps", "org", "1">>, TRUE)}, 1)
  \/ StartWorkers
  \/ StopSignal
  \/ InfoStep
  \/ DeleteTaskOp
  \/ RequeueAllOp

SpecPurged == Init /\ [][NextPurged]_vars

\* ------------------------------------------------------------ loops and the operator
\* two links loops claiming and reporting while the operator retries,
\* requeues and deletes tasks
NextOperated ==
  \/ AddTasksOp({[city |-> "c1", mode |-> LINKS_SEARCH]}, MaxTaskId - 1)
  \/ \E w \in Workers : StartLoop(w)
  \/ \E w \in Workers : LoopStep(w)
  \/ RetryOp
  \/ RequeueAllOp
  \/ DeleteTaskOp

SpecOperated == Init /\ [][NextOperated]_vars

\* ------------------------------------------------------------ properties
PickName == "pick_next_task_for_links"

\* a mode of link-discovery work: LINKS_* (the modes build_tasks makes)
DenotesLinkWork(mode) == Len(mode) > 0 /\ mode[1] = "LINKS"

\* what the contract lets claimNextLinkTask(MaxAttempts) take
Eligible(r) ==
  /\ DenotesLinkWork(r.mode)
  /\ r.status \in {"PENDING", "RETRY"}
  /\ r.attempts < MaxAttempts

\* C3: a claim takes the eligible task of smallest id (link-discovery mode,
\* status PENDING or RETRY, attempts < MaxAttempts), sets it RUNNING and adds 1
\* to its attempts, and changes no other task; with no eligible task it
\* returns none and changes nothing.
C3_ClaimTakesOldestEligible ==
  [][lastOp'.op = PickName =>
       LET E == {i \in 1..Len(tasks) : Eligible(tasks[i])}
       IN IF E = {}
          THEN lastOp'.ret = None /\ tasks' = tasks
          ELSE \E i \in E :
                 /\ \A j \in E : tasks[i].id <= tasks[j].id
                 /\ lastOp'.ret # None
                 /\ lastOp'.ret[1].id = tasks[i].id
                 /\ tasks' = [tasks EXCEPT ![i].status = "RUNNING",
                                           ![i].attempts = @ + 1]]_vars

\* a claim returned a task although an older PENDING/RETRY row exists
C3_Witness ==
  /\ lastOp.op = PickName
  /\ lastOp.ret # None
  /\ \E i \in 1..Len(tasks) :
       /\ tasks[i].id < lastOp.ret[1].id
       /\ tasks[i].status \in {"PENDING", "RETRY"}

\* C4: on a store with no task, add_tasks([T]) and then a claim return T's
\* fields with status RUNNING and attempts 1 (T of a link-discovery mode).
C4_RoundTrip ==
  [][(/\ lastOp.op = "add_tasks"
      /\ Len(lastOp.args) = 1
      /\ Len(tasks) = 1
      /\ DenotesLinkWork(Get(lastOp.args[1], "mode", EmptyMode))
      /\ lastOp'.op = PickName)
     => /\ lastOp'.ret # None
        /\ \A k \in DOMAIN lastOp.args[1] : lastOp'.ret[1][k] = lastOp.args[1][k]
        /\ lastOp'.ret[1].status = "RUNNING"
        /\ lastOp'.ret[1].attempts = 1]_vars

C6_RetryResets ==
  [][lastOp'.op = "retry_task" =>
       \A j \in 1..Len(tasks') :
         tasks'[j].id = lastOp'.args =>
           /\ tasks'[j].status = "RETRY"
           /\ tasks'[j].attempts = 0
           /\ tasks'[j].last_error = NullError]_vars

\* C7: a task's attempts grow only in the step of a claim that returns that
\* task, and then by exactly 1.
C7_AttemptsOnlyByClaim ==
  [][\A i \in 1..Len(tasks), j \in 1..Len(tasks') :
       (tasks[i].id = tasks'[j].id /\ tasks'[j].attempts > tasks[i].attempts) =>
         /\ lastOp'.op = PickName
         /\ lastOp'.ret # None
         /\ lastOp'.ret[1].id = tasks[i].id
         /\ tasks'[j].attempts = tasks[i].attempts + 1]_vars

\* a second claim of the same task, in a store that holds links
C7_Witness ==
  /\ lastOp.op = PickName
  /\ lastOp.ret # None
  /\ links # <<>>
  /\ \E i \in 1..Len(tasks) : tasks[i].id = lastOp.ret[1].id /\ tasks[i].attempts = 2

\* loop w has a claimed task in hand
Holds(w) == workers[w].pc \in {"working", "inserted"}

\* C1: no task is in the hands of two claimants at once: a task returned to
\* one caller is not returned to another before the first completed or
\* failed it.
C1_NoDoubleClaim ==
  \A w1, w2 \in Workers :
    (w1 # w2 /\ Holds(w1) /\ Holds(w2)) =>
      workers[w1].task[1].id # workers[w2].task[1].id

\* task id is RUNNING in the store and no loop has it in hand
Orphaned(id) ==
  /\ \E i \in 1..Len(tasks) : tasks[i].id = id /\ tasks[i].status = "RUNNING"
  /\ ~\E w \in Workers : Holds(w) /\ workers[w].task[1].id = id

\* C2: a task left RUNNING by a crash is, once the pipeline runs again,
\* eventually claimed again or brought to DONE, ERROR or WAITCAPTCHA.
C2_NoTaskLost == \A id \in TaskIds : Orphaned(id) ~> ~Orphaned(id)

\* the rows of ls2 whose id no row of ls1 has: the rows a call added
AddedRows(ls1, ls2) ==
  {i \in 1..Len(ls2) : ~\E j \in 1..Len(ls1) : ls1[j].id = ls2[i].id}

\* C8: insert_links stores no url from which no organization id is derived,
\* no stored link has an empty organization id, and the count it returns is
\* the number of link rows the call added (so an id-less url is not counted).
C8_IdlessNeverInserted ==
  [][lastOp'.op = "insert_links" =>
       /\ \A i \in 1..Len(links') :
            links'[i].org_id # "" /\ OrgIdFromUrl(links'[i].url) # ""
       /\ lastOp'.ret = Cardinality(AddedRows(links, links'))
       /\ lastOp'.ret <= Cardinality({k \in 1..Len(lastOp'.args.urls) :
                                       OrgIdFromUrl(lastOp'.args.urls[k]) # ""})]_vars

\* a batch of an id-less url and a new organization's url returned 1
C8_Witness ==
  /\ lastOp.op = "insert_links"
  /\ Len(lastOp.args.urls) = 2
  /\ \E k \in 1..2 : OrgIdFromUrl(lastOp.args.urls[k]) = ""
  /\ lastOp.ret = 1
  /\ links # <<>>

\* C9: after insert_links there is exactly one link row for every
\* organization id of the batch and no id has two rows; the rows stored before
\* the call are unchanged; the count returned is the number of organization
\* ids of the batch that had no row before the call.
C9_OneLinkPerOrgId ==
  [][lastOp'.op = "insert_links" =>
       LET urls == lastOp'.args.urls
           oids == {OrgIdFromUrl(urls[k]) : k \in 1..Len(urls)} \ {""}
       IN /\ Len(links') >= Len(links)
          /\ \A i \in 1..Len(links) : links'[i] = links[i]
          /\ \A i, j \in 1..Len(links') :
               links'[i].org_id = links'[j].org_id => i = j
          /\ \A oid \in oids :
               Cardinality({i \in 1..Len(links') : links'[i].org_id = oid}) = 1
          /\ lastOp'.ret = Cardinality({oid \in oids : ~HasOrgId(links, oid)})]_vars

\* a batch for one task brought an organization that a link of another task
\* already has: nothing was counted and the first task's row is the one stored
C9_Witness ==
  /\ lastOp.op = "insert_links"
  /\ lastOp.ret = 0
  /\ \E k \in 1..Len(lastOp.args.urls), i \in 1..Len(links) :
       /\ links[i].org_id = OrgIdFromUrl(lastOp.args.urls[k])
       /\ links[i].task_id # lastOp.args.task_id

\* an orgs row without its updated timestamp
Untimed(o) == [k \in DOMAIN o \ {"updated_at"} |-> o[k]]

\* C10: upsert_org called again with the same fields leaves every stored
\* organization as it was after the first call, the updated timestamp aside,
\* and the number of rows as it was.
C10_UpsertIdempotent ==
  [][(lastOp'.op = "upsert_org" /\ lastOp'.again /\ now' = now)
     => /\ {Untimed(o) : o \in orgs'} = {Untimed(o) : o \in orgs}
        /\ Cardinality(orgs') = Cardinality(orgs)]_vars

\* the same fields were stored a second time, later: one row for the
\* organization, stamped with the later time, beside another organization's row
C10_Witness ==
  /\ lastOp.op = "upsert_org"
  /\ lastOp.again
  /\ now > 0
  /\ Cardinality(orgs) = 2
  /\ \E o \in orgs :
       /\ o = OrgRow(lastOp.args, now)
       /\ Cardinality({x \in orgs : x.org_id = o.org_id}) = 1

\* C11: orgs never holds two rows of one organization id, and after
\* upsert_org(f) the row of f's id carries f's value in every descriptive
\* field (name, address, website, ypage, phone, social), whatever the row
\* held before.
C11_OneOrgRowLatestWins ==
  [][/\ \A o1, o2 \in orgs' : o1.org_id = o2.org_id => o1 = o2
     /\ lastOp'.op = "upsert_org" =>
          \E o \in orgs' :
            /\ o.org_id = Get(lastOp'.args, "org_id", "")
            /\ \A k \in OrgFields : o[k] = Get(lastOp'.args, k, "")]_vars

\* upsert_org met a row of the same id with another name and with an address,
\* and the dict brought no address
C11_Witness ==
  /\ lastOp.op = "upsert_org"
  /\ "address" \notin DOMAIN lastOp.args
  /\ \E old \in lastOp.prior :
       /\ old.name # lastOp.args.name
       /\ old.address # ""
  /\ \E o \in orgs : o.org_id = lastOp.args.org_id /\ o.address = ""

\* C12: delete_task(id) removes the task of that id and the links and
\* provenance rows whose task_id is id, keeps every other task, link and
\* provenance row as it was and in place, leaves orgs alone, and changes
\* nothing when no task has that id.
C12_DeleteCascades ==
  [][lastOp'.op = "delete_task" =>
       LET id == lastOp'.args
       IN /\ tasks' = SelectSeq(tasks, LAMBDA r : r.id # id)
          /\ links' = SelectSeq(links, LAMBDA r : r.task_id # id)
          /\ sources' = SelectSeq(sources, LAMBDA r : r.task_id # id)
          /\ orgs' = orgs
          /\ (~\E i \in 1..Len(tasks) : tasks[i].id = id) =>
               (tasks' = tasks /\ links' = links /\ sources' = sources)]_vars

\* a task that had a link was deleted with it, and another task's link and
\* provenance row and an organization are still stored
C12_Witness ==
  /\ lastOp.op = "delete_task"
  /\ lastOp.args < nextTaskId
  /\ ~\E i \in 1..Len(tasks) : tasks[i].id = lastOp.args
  /\ nextLinkId > 2
  /\ Len(links) = 1
  /\ Len(sources) = 1
  /\ links[1].task_id # lastOp.args
  /\ sources[1].task_id # lastOp.args
  /\ orgs # {}

\* C13: requeue_all_tasks sets every task that is not RUNNING to RETRY with
\* attempts 0 and no error, and leaves the status and attempts of every
\* RUNNING task as they were.
C13_RequeueAllSparesRunning ==
  [][lastOp'.op = "requeue_all_tasks" =>
       /\ Len(tasks') = Len(tasks)
       /\ \A i \in 1..Len(tasks) :
            IF tasks[i].status = "RUNNING"
            THEN /\ tasks'[i].status = "RUNNING"
                 /\ tasks'[i].attempts = tasks[i].attempts
            ELSE /\ tasks'[i].status = "RETRY"
                 /\ tasks'[i].attempts = 0
                 /\ tasks'[i].last_error = NullError]_vars

\* C14: requeue_all_tasks deletes no link and no provenance row.
C14_RequeueAllKeepsLinks ==
  [][lastOp'.op = "requeue_all_tasks" =>
       (links' = links /\ sources' = sources)]_vars

\* C15: requeue_task(id, reset_attempts, clear_links, clear_sources), called
\* with the three options true, completes without error, leaves the task
\* RETRY with attempts 0 and deletes the links and provenance rows of that
\* task and no others.
C15_RequeueTaskPurges ==
  [][lastOp'.op = "requeue_task" =>
       LET id == lastOp'.args
       IN /\ lastOp'.ret = None
          /\ \A i \in 1..Len(tasks') :
               tasks'[i].id = id => (tasks'[i].status = "RETRY" /\ tasks'[i].attempts = 0)
          /\ links' = SelectSeq(links, LAMBDA r : r.task_id # id)
          /\ sources' = SelectSeq(sources, LAMBDA r : r.task_id # id)]_vars

\* C16: set_task_waitcaptcha / set_task_error leave the task WAITCAPTCHA /
\* ERROR with a message that carries the worker's name and whose stored
\* length, tag included, is at most 2000, and is the whole tagged message
\* when that is not longer than 2000.
C16_FailureMessageBounded ==
  [][lastOp'.op \in {"set_task_waitcaptcha", "set_task_error"} =>
       \A i \in 1..Len(tasks') :
         tasks'[i].id = lastOp'.args.id =>
           /\ tasks'[i].status =
                (IF lastOp'.op = "set_task_error" THEN "ERROR" ELSE "WAITCAPTCHA")
           /\ tasks'[i].last_error.kind = "error"
           /\ tasks'[i].last_error.worker = lastOp'.args.worker
           /\ tasks'[i].last_error.n <= 2000
           /\ tasks'[i].last_error.n >=
                Min(2000, NameLen(lastOp'.args.worker) + lastOp'.args.errLen)]_vars

\* a failure reported by the links worker with a message longer than the
\* limit is stored at exactly the limit
C16_Witness ==
  /\ lastOp.op \in {"set_task_waitcaptcha", "set_task_error"}
  /\ lastOp.args.worker = "links"
  /\ lastOp.args.errLen > 2000
  /\ \E i \in 1..Len(tasks) :
       /\ tasks[i].id = lastOp.args.id
       /\ tasks[i].status \in {"WAITCAPTCHA", "ERROR"}
       /\ tasks[i].last_error.n = 2000

\* positions of the links whose org_id has no row in orgs
Unresolved == {i \in 1..Len(links) : ~\E o \in orgs : o.org_id = links[i].org_id}

\* C17: fetch_next_link returns the link of smallest id among those whose
\* organization has no orgs row, none when there is no such link, and writes
\* nothing: a call that follows it with nothing stored in between returns
\* the same link.
C17_FetchOldestUnresolved ==
  [][lastOp'.op = "fetch_next_link" =>
       /\ UNCHANGED dbVars
       /\ IF Unresolved = {}
          THEN lastOp'.ret = None
          ELSE \E i \in Unresolved :
                 /\ \A j \in Unresolved : links[i].id <= links[j].id
                 /\ lastOp'.ret = Some(links[i])
       /\ lastOp.op = "fetch_next_link" => lastOp'.ret = lastOp.ret]_vars

\* the link returned is the second one; the first one's organization is stored
C17_Witness ==
  /\ lastOp.op = "fetch_next_link"
  /\ lastOp.ret # None
  /\ \E i \in 1..Len(links) :
       /\ links[i].id < lastOp.ret[1].id
       /\ \E o \in orgs : o.org_id = links[i].org_id

\* organization oid has a provenance row of task id
HasSource(oid, id) ==
  \E i \in 1..Len(sources) : sources[i].org_id = oid /\ sources[i].task_id = id

\* C18: when link discovery for a task has just brought an organization whose
\* link another task found first, and every link has been enriched, the
\* organization has a provenance row for each of the two tasks.
C18_ProvenancePerTask ==
  (lastOp.op = "insert_links" /\ Unresolved = {}) =>
    \A k \in 1..Len(lastOp.args.urls), i \in 1..Len(links) :
      (/\ links[i].org_id = OrgIdFromUrl(lastOp.args.urls[k])
       /\ links[i].task_id # lastOp.args.task_id)
      => /\ HasSource(links[i].org_id, links[i].task_id)
         /\ HasSource(links[i].org_id, lastOp.args.task_id)

\* C19: stop() always returns: once called it comes to its end after the two
\* joins and the closing of the drivers, whether or not a loop ever finishes
\* its task and whether or not a quit ever returns.
C19_StopCompletes ==
  (pipe.agents["stop"].pc # "off") ~> (pipe.agents["stop"].pc = "off")

\* stop() has returned although the links loop is still alive after the
\* signal and a quit outlasted its wait
C19_Witness ==
  /\ pipe.agents["stop"].pc = "off"
  /\ pipe.agents["stop"].hung
  /\ pipe.stop
  /\ pipe.threads["links"] = "alive"

\* the background threads of stop_async inside the join-and-close sequence
InFlight == {a \in Agents \ {"stop"} : pipe.agents[a].pc # "off"}

\* C20: at most one background join-and-close thread is in flight at any
\* time; a stop_async call returns without waiting for the sequence; and a
\* taken in-flight flag is always released again.
C20_StopAsyncCollapses ==
  /\ [](Cardinality(InFlight) <= 1)
  /\ \A c \in Callers : (pipe.callers[c].pc # "off") ~> (pipe.callers[c].pc = "off")
  /\ pipe.stopping ~> ~pipe.stopping

\* a stop_async call returned at once because another call's background
\* thread is still in its joins, a loop being alive
C20_Witness ==
  /\ \E c \in Callers : pipe.callers[c] = [pc |-> "off", last |-> "collapsed"]
  /\ Cardinality(InFlight) = 1
  /\ \E a \in InFlight : pipe.agents[a].pc \in {"join_links", "join_info"}
  /\ \E l \in Loops : pipe.threads[l] = "alive"

\* ------------------------------------------------------------ C21
\* C21: a call of _quit_driver_safely always comes back to its caller, having
\* waited in join no longer than its timeout, whether or not driver.quit()
\* ever ends; and it comes back by returning, never by raising, whatever the
\* quit or the taskkill fallback did.
C21_CloseNeverBlocks ==
  /\ [](closer.waited <= closer.timeout /\ closer.out # "raised")
  /\ (closer.pc # "off") ~> (closer.pc = "off" /\ closer.out = "returned")

\* the call has returned after its whole timeout, the quit still hanging and
\* taskkill having failed
C21_Witness ==
  /\ closer.pc = "off"
  /\ closer.out = "returned"
  /\ closer.quit = "running"
  /\ closer.waited = closer.timeout
  /\ closer.fallback \in FallbackFailures

\* ------------------------------------------------------------ C22
\* segment j of u is a run of digits with a "/" before and after it
DigitsThenSlash(u, j) ==
  /\ j \in 1..Len(u.segs)
  /\ u.segs[j] \in {"1", "2"}
  /\ (j = Len(u.segs) => u.trail)

\* the digits at which /org/<slug>/<digits>/ occurs in u
SlugDigits(u) ==
  {u.segs[i + 2] : i \in {k \in 1..Len(u.segs) :
      u.segs[k] = "org" /\ DigitsThenSlash(u, k + 2) /\ u.segs[k + 1] # ""}}

\* the digits at which /org/<digits>/ occurs in u
PlainDigits(u) ==
  {u.segs[i + 1] : i \in {k \in 1..Len(u.segs) :
      u.segs[k] = "org" /\ DigitsThenSlash(u, k + 1)}}

\* the digits that end u
TrailingDigits(u) ==
  IF Len(u.segs) > 0 /\ u.segs[Len(u.segs)] \in {"1", "2"}
  THEN {u.segs[Len(u.segs)]} ELSE {}

\* C22: org_id_from_url returns digits found by /org/<slug>/<digits>/ when
\* that pattern occurs, else digits found by /org/<digits>/ when that occurs,
\* else the digits that end the url, else the empty string; .../org/name/1/,
\* .../org/1/ and .../maps/2 give their digits and .../org/name/ gives "".
C22_OrgIdByPriority ==
  lastOp.op = "org_id_from_url" =>
    LET u == lastOp.args
        r == lastOp.ret
    IN /\ IF SlugDigits(u) # {} THEN r \in SlugDigits(u)
          ELSE IF PlainDigits(u) # {} THEN r \in PlainDigits(u)
          ELSE IF TrailingDigits(u) # {} THEN r \in TrailingDigits(u)
          ELSE r = ""
       /\ u = Url(<<"org", "name", "1">>, TRUE) => r = "1"
       /\ u = Url(<<"org", "1">>, TRUE) => r = "1"
       /\ u = Url(<<"name", "2">>, FALSE) => r = "2"
       /\ u = Url(<<"org", "name">>, TRUE) => r = ""

\* a url in which /org/<digits>/ occurs with other digits than
\* /org/<slug>/<digits>/, and the latter were returned
C22_Witness ==
  /\ lastOp.op = "org_id_from_url"
  /\ lastOp.args = Url(<<"org", "1", "2">>, TRUE)
  /\ lastOp.ret = "2"

\* ------------------------------------------------------------ C23
\* a call of collect_links_from_list has returned its list
Harvested == harvest.pc = "off" /\ harvest.pass > 0 /\ harvest.raised = ""

\* the set held after pass p (empty before the first pass)
SeenBy(p) == IF p = 0 THEN {} ELSE harvest.seen[p]

\* the pass on which the set grew last, 0 if it never grew
LastGrowth ==
  IF \E p \in 1..Len(harvest.seen) : SeenBy(p) # SeenBy(p - 1)
  THEN CHOOSE p \in 1..Len(harvest.seen) :
         /\ SeenBy(p) # SeenBy(p - 1)
         /\ \A q \in (p + 1)..Len(harvest.seen) : SeenBy(q) = SeenBy(q - 1)
  ELSE 0

\* C23 as stated: the call returns after pass k + m, k the pass of the last
\* growth (0 if none) and m the idle threshold, with the set held after pass k.
C23_IdleTermination ==
  Harvested =>
    /\ harvest.pass = LastGrowth + harvest.max_idle
    /\ harvest.out = SeenBy(LastGrowth)

\* C23 amended: the call returns after pass k + m or after the last pass the
\* hard cap allows, whichever comes first, with the set held after pass k.
C23_IdleOrCapTermination ==
  Harvested =>
    /\ harvest.pass = Min(LastGrowth + harvest.max_idle, PassCap)
    /\ harvest.out = SeenBy(LastGrowth)

\* last growth on pass 3, threshold 2: returned after pass 5 with the set of
\* pass 3
C23_Witness ==
  /\ Harvested
  /\ harvest.max_idle = 2
  /\ LastGrowth = 3
  /\ harvest.pass = 5
  /\ harvest.out = SeenBy(3)
  /\ harvest.out # {}

\* ------------------------------------------------------------ C25
\* two characters are the same letter, whatever their case
SameLetter(c, e) == c = e \/ {c, e} = {"a", "A"} \/ {c, e} = {"b", "B"}

\* ex occurs in h when case is ignored
OccursIgnoringCase(ex, h) ==
  \E i \in 0..(Len(h) - Len(ex)) : \A j \in 1..Len(ex) : SameLetter(h[i + j], ex[j])

\* h contains none of the excludes that are not empty
Kept(h, excludes) ==
  \A j \in 1..Len(excludes) : excludes[j] # <<>> => ~OccursIgnoringCase(excludes[j], h)

\* s is made of the members of t that satisfy Kept, in the order of t
RECURSIVE IsKeptPart(_, _, _)
IsKeptPart(s, t, excludes) ==
  IF t = <<>> THEN s = <<>>
  ELSE IF Kept(Head(t), excludes)
       THEN s # <<>> /\ Head(s) = Head(t) /\ IsKeptPart(Tail(s), Tail(t), excludes)
       ELSE IsKeptPart(s, Tail(t), excludes)

\* C25: the agent returns exactly the harvested urls that contain none of the
\* non-empty exclude substrings, case ignored, in their harvested order.
C25_ExcludeFiltering ==
  lastOp.op = "collect_task_links" =>
    IsKeptPart(lastOp.ret, lastOp.args.hrefs, lastOp.args.excludes)

\* three urls harvested, an exclude that matches the second one only, and only
\* when case is ignored, and an empty exclude: the first and the third returned
C25_Witness ==
  /\ lastOp.op = "collect_task_links"
  /\ lastOp.args.hrefs = << <<"b">>, <<"a", "B">>, <<"b", "a">> >>
  /\ lastOp.args.excludes = << <<>>, <<"a", "b">> >>
  /\ lastOp.ret = << <<"b">>, <<"b", "a">> >>

\* ------------------------------------------------------------ C24
\* the link rows stored for task id
LinksOfTask(id) == {i \in 1..Len(links) : links[i].task_id = id}

\* C24: when the page shows a captcha at the start of a harvesting pass,
\* links_fn ends there with CaptchaError: no list reaches insert_links, not
\* even the urls gathered by the passes before, and no link row of the task
\* is stored.
C24_CaptchaAbortsHarvest ==
  harvest.captcha =>
    /\ harvest.raised = "CaptchaError"
    /\ harvest.out = {}
    /\ loop["links"].pc = "handle"
    /\ loop["links"].outcome = "CaptchaError"
    /\ loop["links"].result = None
    /\ LinksOfTask(loop["links"].item[1].id) = {}

\* two passes gathered urls and the third one met a captcha
C24_Witness ==
  /\ harvest.captcha
  /\ harvest.pass = 3
  /\ Cardinality(harvest.links) = 2
  /\ loop["links"].pc = "handle"
  /\ loop["links"].outcome = "CaptchaError"

\* ------------------------------------------------------------ C26
\* the loop l handles a failure in this step
Handles(l) == loop[l].pc = "handle" /\ loop'[l] # loop[l]

\* C26: a failure raised by links_fn, info_fn or make_driver inside a loop
\* is taken by one of the loop's except clauses: the thread stays alive and
\* goes back to its while test, no thread ever ends on an exception, and in
\* the links loop the claimed task leaves RUNNING in the same step.
C26_FailuresCaughtAtLoop ==
  /\ [](\A l \in Loops : pipe.threads[l] # "crashed")
  /\ [][\A l \in Loops :
          Handles(l) =>
            /\ loop[l].outcome \in FailureClasses
            /\ pipe'.threads[l] = "alive"
            /\ loop'[l].pc = "top"
            /\ l = "links" =>
                 /\ TaskById(tasks, loop[l].item[1].id)[1].status = "RUNNING"
                 /\ TaskById(tasks', loop[l].item[1].id)[1].status # "RUNNING"]_vars

\* the links loop is claiming again, its thread alive, after an error that
\* only the last clause takes
C26_Witness ==
  /\ \E i \in 1..Len(tasks) : tasks[i].status = "ERROR"
  /\ pipe.drivers["links"] = "none"
  /\ loop["links"].pc = "pick"
  /\ \A l \in Loops : pipe.threads[l] = "alive"

\* ------------------------------------------------------------ C27
\* the status of task id in ts
StatusOf(ts, id) == TaskById(ts, id)[1].status

\* C27: the links loop leaves the task it claimed DONE, with the rows
\* insert_links stored, when links_fn returned; WAITCAPTCHA after a
\* CaptchaError; ERROR after a TimeoutException and after any other
\* exception; no task is RUNNING when the loop is at its while test or at
\* its next claim.
C27_LinksOutcomeMapping ==
  /\ [](loop["links"].pc \in {"off", "top", "pick", "exit"} =>
          \A i \in 1..Len(tasks) : tasks[i].status # "RUNNING")
  /\ [][LET it == loop["links"]
        IN /\ (it.pc = "done" /\ loop'["links"].pc # "done") =>
                /\ StatusOf(tasks', it.item[1].id) = "DONE"
                /\ Cardinality(LinksOfTask(it.item[1].id)) = it.result[1]
                /\ links' = links
           /\ (it.pc = "handle" /\ loop'["links"].pc # "handle") =>
                StatusOf(tasks', it.item[1].id) =
                  (IF it.outcome = "CaptchaError" THEN "WAITCAPTCHA" ELSE "ERROR")]_vars

\* a task is DONE with two link rows stored and the loop is at its next claim
C27_Witness ==
  /\ loop["links"].pc = "pick"
  /\ \E i \in 1..Len(tasks) :
       /\ tasks[i].status = "DONE"
       /\ Cardinality(LinksOfTask(tasks[i].id)) = 2

\* ------------------------------------------------------------ C28
\* C28: the links loop's driver is created only by the loop itself, after a
\* task was claimed and while no driver exists; it stays as it is across
\* iterations that end in success, CaptchaError or TimeoutException; it is
\* quit and cleared exactly when the last except clause takes the failure
\* (or when the loop itself leaves its while).
C28_LinksSessionRetention ==
  [][LET it == loop["links"]
     IN /\ (pipe.drivers["links"] = "none" /\ pipe'.drivers["links"] = "open") =>
             it.pc = "claimed" /\ it.item # None
        /\ (pipe.drivers["links"] = "open" /\ pipe'.drivers["links"] = "none") =>
             \/ it.pc = "handle" /\ it.outcome \notin {"CaptchaError", "TimeoutException"}
             \/ it.pc = "exit"
        /\ (Handles("links") /\ it.outcome \notin {"CaptchaError", "TimeoutException"}) =>
             pipe'.drivers["links"] = "none"]_vars

\* ------------------------------------------------------------ C29
\* the rows of the four tables
StoredRows == <<tasks, links, orgs, sources>>

\* C29: in the info loop, an organization with a non-empty org_id is
\* upserted and exactly one provenance row, built from the link, is
\* appended; a CaptchaError changes no task, link, organization or
\* provenance row; any other failure changes no row and quits and clears
\* the loop's driver; after a failure fetch_next_link returns the same link
\* again.
C29_InfoLoopEffects ==
  [][LET it == loop["info"]
     IN /\ (it.pc = "store" /\ loop'["info"].pc # "store"
              /\ Get(it.result[1], "org_id", "") # "") =>
             /\ \E o \in orgs' : /\ o.org_id = it.result[1].org_id
                                 /\ o.name = it.result[1].name
             /\ sources' = Append(sources,
                                  SourceRow(it.result[1].org_id, it.item[1],
                                            it.item[1].source_mode))
             /\ FetchNextLink(links', orgs') # it.item
             /\ UNCHANGED <<tasks, links>>
        /\ Handles("info") =>
             /\ StoredRows' = StoredRows
             /\ FetchNextLink(links', orgs') = it.item
             /\ it.outcome = "CaptchaError" => pipe'.drivers["info"] = pipe.drivers["info"]
             /\ it.outcome # "CaptchaError" => pipe'.drivers["info"] = "none"]_vars

\* one link is resolved, with its provenance row, and the info loop is
\* handling a failure on the next one with its driver open
C29_Witness ==
  /\ Len(sources) = 1
  /\ Cardinality(orgs) = 1
  /\ loop["info"].pc = "handle"
  /\ loop["info"].outcome = "Exception"
  /\ pipe.drivers["info"] = "open"

\* ------------------------------------------------------------ C30
\* C30: the event is read only at the while test. A loop leaves its while
\* only from the test, with no item in hand and the event set; it claims
\* only right after a test that found the event clear, so that once the
\* event is set it claims at most the one item whose test came before; the
\* setting of the event changes nothing in a running iteration; a links
\* thread that has ended left no task RUNNING; and once the event is set
\* each thread ends, every agent call coming back.
C30_CooperativeCancellation ==
  /\ [](pipe.threads["links"] = "dead" =>
          \A i \in 1..Len(tasks) : tasks[i].status # "RUNNING")
  /\ [][\A l \in Loops :
          /\ (loop'[l].pc = "exit" /\ loop[l].pc # "exit") =>
                loop[l].pc = "top" /\ loop[l].item = None /\ pipe.stop
          /\ (loop'[l].pc = "pick" /\ loop[l].pc # "pick") =>
                loop[l].pc = "top" /\ ~pipe.stop
          /\ (loop'[l].item # None /\ loop[l].item = None) =>
                loop[l].pc = "pick"
          /\ (pipe'.stop /\ ~pipe.stop) => loop'[l] = loop[l]]_vars
  /\ pipe.stop ~> (\A l \in Loops : pipe.threads[l] = "dead")

\* the event is set, the links loop has passed its test before and is about
\* to claim the task that waits
C30_Witness ==
  /\ pipe.stop
  /\ loop["links"].pc = "pick"
  /\ SelectNextTask(backend, tasks, MaxAttempts, {}) # None

\* ------------------------------------------------------------ C34
\* C34: collect_links_from_list never makes more passes than the hard cap;
\* with no captcha it has returned at the latest after the cap's last pass,
\* whatever the page showed, and what it returns is the set accumulated by
\* its last pass.
C34_HarvestWithinCap ==
  /\ harvest.pass <= PassCap
  /\ (harvest.pass = PassCap => harvest.pc = "off")
  /\ (harvest.pc = "pass" => harvest.pass < PassCap)
  /\ (Harvested => harvest.out = SeenBy(harvest.pass) /\ harvest.out = harvest.links)

\* the set grew on the cap's last pass and the call returned it all, its
\* idle count still under the threshold
C34_Witness ==
  /\ Harvested
  /\ harvest.pass = PassCap
  /\ LastGrowth = PassCap
  /\ harvest.idle < harvest.max_idle
  /\ Cardinality(harvest.out) = 3

\* ------------------------------------------------------------ C33
\* a call of make_driver has ended after at least one launch
Opened == opener.pc = "off" /\ opener.launches # <<>>

\* the second launch was made on the profile directory, cleaned again
RetriedOnce ==
  /\ Len(opener.launches) = 2
  /\ opener.launches[2] = [dir |-> opener.profile, locks |-> FALSE]

\* the second launch was made on a fresh directory
FellBack ==
  /\ Len(opener.launches) = 2
  /\ opener.launches[2] = [dir |-> FallbackDir, locks |-> FALSE]

\* the first launch's exception reached the caller and no other launch was
\* made
GaveUp ==
  /\ Len(opener.launches) = 1
  /\ opener.out = opener.failure.cls

InIteration(l) == loop[l].item # None

\* C31: while a loop is inside an iteration its driver is quit and cleared
\* by no one but the loop itself, in its own except clause.
C31_SessionOwnership ==
  [][\A l \in Loops :
       (InIteration(l) /\ pipe.drivers[l] = "open" /\ pipe'.drivers[l] = "none") =>
         Handles(l)]_vars

\* ------------------------------------------------------------ C32
\* the Pipeline objects whose loop l is running
RunningLoops(l) == {p \in Pipelines : app.pipes[p].threads[l] = "alive"}

\* C32: whatever start and stop requests were made, at most one links loop
\* and at most one info loop are running.
C32_OneLoopOfEachKind ==
  \A l \in Loops : Cardinality(RunningLoops(l)) <= 1

\* ------------------------------------------------------------ C35
\* C35: no task's attempts ever exceeds the max_attempts the claimants use.
C35_AttemptsWithinMax ==
  \A i \in 1..Len(tasks) : tasks[i].attempts <= MaxAttempts

\* ------------------------------------------------------------ C36
\* C36: every link row and every provenance row names a task that exists.
C36_RowsReferToTasks ==
  /\ \A i \in 1..Len(links) : HasTask(tasks, links[i].task_id)
  /\ \A i \in 1..Len(sources) : HasTask(tasks, sources[i].task_id)

\* ------------------------------------------------------------ C40
\* loop w writes the result of the task it holds in this step
Reports(w) == Holds(w) /\ workers'[w].pc = "idle"

\* C40: a loop's done, captcha or error write changes the task only while
\* it is still RUNNING; a task set to RETRY during the run is still RETRY
\* after the write.
C40_RequeueSurvivesReport ==
  [][\A w \in Workers :
       (Reports(w) /\ HasTask(tasks, workers[w].task[1].id)
          /\ TaskById(tasks, workers[w].task[1].id)[1].status # "RUNNING") =>
         tasks' = tasks]_vars

\* ------------------------------------------------------------ C39
\* the claim of loop w returns a task in this step
Claims(w) == workers[w].pc = "selected" /\ workers'[w].pc = "working"

\* C39: with no operator action, the claim returns only a task that is
\* PENDING or RETRY at that moment, no task is claimed twice, and a task in
\* ERROR or WAITCAPTCHA keeps that status.
C39_NoAutomaticRetry ==
  [][/\ \A w \in Workers :
          Claims(w) => StatusOf(tasks, workers'[w].task[1].id) \in {"PENDING", "RETRY"}
     /\ \A i \in 1..Len(tasks) :
          /\ tasks'[i].attempts <= 1
          /\ tasks[i].status \in {"ERROR", "WAITCAPTCHA"} =>
               tasks'[i].status = tasks[i].status]_vars

\* ------------------------------------------------------------ C37
\* the info loop makes an attempt on the link it took: info_fn is called, or
\* what it returned is stored
Attempts == loop["info"].pc \in {"agent", "store"} /\ loop'["info"] # loop["info"]

\* links of smaller id than link_row that have no orgs row
OlderUnresolved(link_row) == {i \in Unresolved : links[i].id < link_row.id}

\* C37: the info loop attempts a link only when no link of smaller id is
\* unresolved, and an orgs row is written only for the oldest unresolved
\* link: while that link keeps failing no later link is enriched.
C37_HeadOfLineOrder ==
  [][/\ Attempts => OlderUnresolved(loop["info"].item[1]) = {}
     /\ orgs' # orgs =>
          /\ Unresolved # {}
          /\ \A o \in orgs' \ orgs : o.org_id = FetchNextLink(links, orgs)[1].org_id]_vars

\* the oldest unresolved link has just failed while a later link waits
C37_Witness ==
  /\ loop["info"].pc = "handle"
  /\ OlderUnresolved(loop["info"].item[1]) = {}
  /\ \E i \in Unresolved : links[i].id > loop["info"].item[1].id

\* ------------------------------------------------------------ C38
\* the organizations that have an orgs row
Resolved == {o.org_id : o \in orgs}

\* C38: fetch_next_link never hands the info loop a link whose org_id has an
\* orgs row; so once an organization is stored, whatever is deleted and
\* found again later, its orgs row is not written again and no provenance
\* row is appended for it.
C38_ResolvedNeverFetchedAgain ==
  [][/\ (loop["info"].pc = "pick" /\ loop'["info"].item # None) =>
          loop'["info"].item[1].org_id \notin Resolved
     /\ Len(sources') > Len(sources) =>
          sources'[Len(sources')].org_id \notin Resolved
     /\ orgs \subseteq orgs']_vars

\* an organization is stored, its link and provenance were purged, a later
\* task found it again, and the info loop has nothing to do
C38_Witness ==
  /\ sources = <<>>
  /\ \E i \in 1..Len(links) :
       /\ links[i].org_id \in Resolved
       /\ links[i].task_id > 1
  /\ pipe.threads["info"] = "alive"
  /\ loop["info"].pc = "top"
  /\ FetchNextLink(links, orgs) = None

====
